---- MODULE Spec2Model ----
(***************************************************************************)
(* A model of portable_msvc.py: the manifest-driven resolution of the MSVC *)
(* toolchain and Windows SDK packages, the integrity-verified download     *)
(* cache, and the recovery of sub-archive names from installer packages.   *)
(*                                                                         *)
(* Python strings and byte buffers are sequences of characters; every      *)
(* character is a one-character TLA+ string, ordered by its code point.    *)
(***************************************************************************)
EXTENDS Integers, Sequences, FiniteSets, TLC

VARIABLES
    pc,             \* position of the process in VSInstaller.run
    exit,           \* how the process ended: running, sys.exit, a traceback, killed
    args,           \* the parsed command line (self.args, self.host, self.targets)
    vs_manifest,    \* vs_manifest["packages"], in manifest order
    network,        \* what the servers may answer in this environment
    packages,       \* the package index built by parse_available_versions
    msvc_versions,  \* dict: toolchain version key -> package id
    sdk_versions,   \* dict: SDK version key -> package id
    selections,     \* the tuples returned by the calls of select_versions so far
    dirs,           \* the directories that exist (OUTPUT_DIR, DOWNLOADS_DIR)
    cache,          \* the files of DOWNLOADS_DIR: file name -> bytes
    msvc_packages,  \* download_msvc: the list of package names, as built
    todo,           \* the sequence the running for loop iterates over
    pkg_i,          \* the position of that loop in todo (from 1)
    payload_i,      \* download_msvc: the position in package["payloads"] (from 1)
    dl,             \* the running (or the last) call of download_with_progress
    total_bytes,    \* DownloadManager.total_bytes
    msi_files,      \* download_sdk: the installer packages to pass to msiexec
    cab_files,      \* download_sdk: the sub-archive names recovered so far
    msi_data,       \* the buffer of the running (or the last) call of extract_cab_files
    netlog,         \* history: the file names requested from the network, in order
    returned,       \* history: the file names download_with_progress returned, in order
    extracted,      \* history: the files whose contents were extracted, in order
    reported,       \* history: the package names printed as MISSING
    leftover,       \* history: cache files last written by a download that did not verify
    runs,           \* history: the number of processes started
    corruptions,    \* history: the number of cache files damaged from outside
    main_manifest,  \* main_manifest["channelItems"], in manifest order
    certifi,        \* whether the certifi package can be imported
    rejected,       \* the <<host, context>> pairs whose certificate check fails
    ssl_context,    \* the global ssl_context: None, or the certifi bundle
    requests        \* history: the calls of urlopen and how each ended, in order

inputVars == <<args, vs_manifest, network>>
indexVars == <<packages, msvc_versions, sdk_versions>>
loopVars == <<msvc_packages, todo, pkg_i, payload_i>>
sdkVars == <<msi_files, cab_files, msi_data>>
fetchVars == <<cache, dl, total_bytes, netlog, returned, leftover>>
envVars == <<runs, corruptions>>
tlsVars == <<main_manifest, certifi, rejected, ssl_context, requests>>

vars ==
    <<pc, exit, args, vs_manifest, network, packages, msvc_versions, sdk_versions,
      selections, dirs, cache, msvc_packages, todo, pkg_i, payload_i, dl, total_bytes,
      msi_files, cab_files, msi_data, netlog, returned, extracted, reported, leftover, runs,
      corruptions, main_manifest, certifi, rejected, ssl_context, requests>>

----------------------------------------------------------------------------
(* Bounds of the model *)

\* Toolchain packages per manifest in the version-discovery inputs.
MaxToolPkgs == 2
\* Calls of select_versions on one installer object.
MaxSelectCalls == 2

\* Bytes per read of the response (the code reads 1 << 20 at a time).
ChunkSize == 16
\* Processes started on the same directories.
MaxRuns == 2
\* Cache files damaged from outside.
MaxCorruptions == 1

----------------------------------------------------------------------------
(* Characters and Python's str operations *)

AsciiPrintable ==
    <<" ", "!", "\"", "#", "$", "%", "&", "'", "(", ")", "*", "+", ",", "-", ".", "/", "0",
      "1", "2", "3", "4", "5", "6", "7", "8", "9", ":", ";", "<", "=", ">", "?", "@", "A", "B",
      "C", "D", "E", "F", "G", "H", "I", "J", "K", "L", "M", "N", "O", "P", "Q", "R", "S", "T",
      "U", "V", "W", "X", "Y", "Z", "[", "\\", "]", "^", "_", "0x60", "a", "b", "c", "d", "e",
      "f", "g", "h", "i", "j", "k", "l", "m", "n", "o", "p", "q", "r", "s", "t", "u", "v", "w",
      "x", "y", "z", "{", "|", "}", "~">>

\* The grave accent (code 96) is written 0x60 in the table above.
\* Two bytes outside printable ASCII: NUL and 0xFF (not decodable as ASCII).
ByteNul == "0x00"
ByteFF == "0xFF"

Chars == {AsciiPrintable[i] : i \in 1..Len(AsciiPrintable)} \cup {ByteNul, ByteFF}

\* ord(c): the code point of a character.
Ord ==
    [c \in Chars |->
        IF c = ByteNul THEN 0
        ELSE IF c = ByteFF THEN 255
        ELSE 31 + (CHOOSE i \in 1..Len(AsciiPrintable) : AsciiPrintable[i] = c)]

\* chr(n) for printable ASCII.
Chr(n) == AsciiPrintable[n - 31]

\* None, told apart from every str (a str holds characters only).
None == <<"<None>">>

Min(a, b) == IF a < b THEN a ELSE b
Max(a, b) == IF a < b THEN b ELSE a

\* str.lower() on ASCII.
LowerChar(c) == IF Ord[c] >= 65 /\ Ord[c] <= 90 THEN Chr(Ord[c] + 32) ELSE c
Lower(s) == [i \in 1..Len(s) |-> LowerChar(s[i])]

\* str.isnumeric() on ASCII: non-empty and every character a digit.
IsDigit(c) == Ord[c] >= 48 /\ Ord[c] <= 57
IsNumeric(s) == Len(s) > 0 /\ \A i \in 1..Len(s) : IsDigit(s[i])

\* a < b for str: the first differing character decides, a proper prefix is smaller.
StrLess(a, b) ==
    LET n == Min(Len(a), Len(b))
        d == {i \in 1..n : a[i] # b[i]}
    IN  IF d = {} THEN Len(a) < Len(b)
        ELSE LET i == CHOOSE j \in d : \A k \in d : j <= k
             IN  Ord[a[i]] < Ord[b[i]]

StartsWith(s, p) == Len(s) >= Len(p) /\ SubSeq(s, 1, Len(p)) = p
EndsWith(s, p) == Len(s) >= Len(p) /\ SubSeq(s, Len(s) - Len(p) + 1, Len(s)) = p

\* seq[lo:hi] with Python's rules: negative indices count from the end, then clamp.
PySlice(s, lo, hi) ==
    LET n == Len(s)
        l == IF lo < 0 THEN Max(n + lo, 0) ELSE Min(lo, n)
        h == IF hi < 0 THEN Max(n + hi, 0) ELSE Min(hi, n)
    IN  SubSeq(s, l + 1, h)

\* s.split(sep) for a one-character separator.
RECURSIVE Split(_, _)
Split(s, sep) ==
    LET hits == {i \in 1..Len(s) : s[i] = sep}
    IN  IF hits = {} THEN <<s>>
        ELSE LET i == CHOOSE j \in hits : \A k \in hits : j <= k
             IN  <<SubSeq(s, 1, i - 1)>> \o Split(SubSeq(s, i + 1, Len(s)), sep)

\* sep.join(parts)
RECURSIVE Join(_, _)
Join(parts, sep) ==
    IF Len(parts) = 0 THEN <<>>
    ELSE IF Len(parts) = 1 THEN parts[1]
    ELSE parts[1] \o sep \o Join(Tail(parts), sep)

Dot == <<".">>

\* A maximum that compares the keys as numbers: a shorter digit string is smaller.
StrMaxNumeric(S) ==
    CHOOSE m \in S : \A x \in S :
        x = m \/ Len(x) < Len(m) \/ (Len(x) = Len(m) /\ StrLess(x, m))

\* max(sorted(keys)) over a non-empty set of str.
StrMax(S) == CHOOSE m \in S : \A x \in S : x = m \/ StrLess(x, m)

----------------------------------------------------------------------------
(* String literals of the source *)

MSVC_PREFIX == <<"m", "i", "c", "r", "o", "s", "o", "f", "t", ".", "v", "c", ".">>

MSVC_SUFFIX ==
    <<".", "t", "o", "o", "l", "s", ".", "h", "o", "s", "t", "x", "6", "4", ".", "t", "a", "r",
      "g", "e", "t", "x", "6", "4", ".", "b", "a", "s", "e">>

SDK10_PREFIX ==
    <<"m", "i", "c", "r", "o", "s", "o", "f", "t", ".", "v", "i", "s", "u", "a", "l", "s", "t",
      "u", "d", "i", "o", ".", "c", "o", "m", "p", "o", "n", "e", "n", "t", ".", "w", "i", "n",
      "d", "o", "w", "s", "1", "0", "s", "d", "k", ".">>

SDK11_PREFIX ==
    <<"m", "i", "c", "r", "o", "s", "o", "f", "t", ".", "v", "i", "s", "u", "a", "l", "s", "t",
      "u", "d", "i", "o", ".", "c", "o", "m", "p", "o", "n", "e", "n", "t", ".", "w", "i", "n",
      "d", "o", "w", "s", "1", "1", "s", "d", "k", ".">>

Str_tools_host == <<".", "t", "o", "o", "l", "s", ".", "h", "o", "s", "t">>
Str_target == <<".", "t", "a", "r", "g", "e", "t">>
Str_base == <<".", "b", "a", "s", "e">>

X64 == <<"x", "6", "4">>
X86 == <<"x", "8", "6">>
ARM == <<"a", "r", "m">>
ARM64 == <<"a", "r", "m", "6", "4">>
ALL_TARGETS == <<X64, X86, ARM, ARM64>>

Str_dia_sdk ==
    <<"m", "i", "c", "r", "o", "s", "o", "f", "t", ".", "v", "i", "s", "u", "a", "l", "c", "p",
      "p", ".", "d", "i", "a", ".", "s", "d", "k">>

Str_crt_headers_base ==
    <<".", "c", "r", "t", ".", "h", "e", "a", "d", "e", "r", "s", ".", "b", "a", "s", "e">>

Str_crt_source_base ==
    <<".", "c", "r", "t", ".", "s", "o", "u", "r", "c", "e", ".", "b", "a", "s", "e">>

Str_asan_headers_base ==
    <<".", "a", "s", "a", "n", ".", "h", "e", "a", "d", "e", "r", "s", ".", "b", "a", "s", "e">>

Str_pgo_headers_base ==
    <<".", "p", "g", "o", ".", "h", "e", "a", "d", "e", "r", "s", ".", "b", "a", "s", "e">>

Str_res_base == <<".", "r", "e", "s", ".", "b", "a", "s", "e">>

Str_crt == <<".", "c", "r", "t", ".">>

Str_desktop_base == <<".", "d", "e", "s", "k", "t", "o", "p", ".", "b", "a", "s", "e">>

Str_store_base == <<".", "s", "t", "o", "r", "e", ".", "b", "a", "s", "e">>

Str_premium_tools_host ==
    <<".", "p", "r", "e", "m", "i", "u", "m", ".", "t", "o", "o", "l", "s", ".", "h", "o", "s",
      "t">>

Str_pgo == <<".", "p", "g", "o", ".">>

Str_asan == <<".", "a", "s", "a", "n", ".">>

Str_crt_redist == <<".", "c", "r", "t", ".", "r", "e", "d", "i", "s", "t", ".">>

Str_onecore_desktop ==
    <<".", "o", "n", "e", "c", "o", "r", "e", ".", "d", "e", "s", "k", "t", "o", "p">>

Str_visualcpp_crt_redist ==
    <<"m", "i", "c", "r", "o", "s", "o", "f", "t", ".", "v", "i", "s", "u", "a", "l", "c", "p",
      "p", ".", "c", "r", "t", ".", "r", "e", "d", "i", "s", "t", ".">>

Str_en_US == <<"e", "n", "-", "U", "S">>

----------------------------------------------------------------------------
(* Outcomes of the process *)

Running == [kind |-> "running", what |-> "", arg |-> <<>>]
\* sys.exit(arg): SystemExit, caught nowhere in the program.
SysExit(what, arg) == [kind |-> "exit", what |-> what, arg |-> arg]
\* An exception no handler catches: the process ends with a traceback.
Crash(what) == [kind |-> "crash", what |-> what, arg |-> <<>>]

----------------------------------------------------------------------------
(* hashlib.sha256(data).hexdigest() *)

HexDigits == <<"0", "1", "2", "3", "4", "5", "6", "7", "8", "9", "a", "b", "c", "d", "e", "f">>

\* The digest as a number: h = 40503, then h = (h * 257 + byte + 1) mod 2^16 for
\* each byte in turn, computed by halves.  It stands for SHA-256 in being a
\* fixed function of the bytes alone; two buffers of the inputs below have the
\* same digest only if they are equal.
RECURSIVE DigestPart(_, _, _)
DigestPart(data, lo, hi) ==
    IF lo > hi THEN [v |-> 0, p |-> 1]
    ELSE IF lo = hi THEN [v |-> Ord[data[lo]] + 1, p |-> 257]
    ELSE LET mid == (lo + hi) \div 2
             l == DigestPart(data, lo, mid)
             r == DigestPart(data, mid + 1, hi)
         IN  [v |-> (l.v * r.p + r.v) % 65536, p |-> (l.p * r.p) % 65536]

DigestValue(data) ==
    LET part == DigestPart(data, 1, Len(data))
    IN  (40503 * part.p + part.v) % 65536

\* hexdigest(): lower-case hexadecimal digits.
Sha256(data) ==
    LET v == DigestValue(data)
    IN  <<HexDigits[((v \div 4096) % 16) + 1], HexDigits[((v \div 256) % 16) + 1],
          HexDigits[((v \div 16) % 16) + 1], HexDigits[(v % 16) + 1]>>

\* The same digits in upper case, as some manifests write them.
UpperChar(c) == IF Ord[c] >= 97 /\ Ord[c] <= 122 THEN Chr(Ord[c] - 32) ELSE c
Upper(s) == [i \in 1..Len(s) |-> UpperChar(s[i])]

----------------------------------------------------------------------------
(* parse_available_versions *)

\* One package object of the manifest.
Package(id, language, payloads, dependencies) ==
    [id |-> id, language |-> language, payloads |-> payloads, dependencies |-> dependencies]

\* packages.setdefault(package_id, []).append(package): the keys in the order of
\* their first occurrence, and under each key its records in manifest order.
RECURSIVE IndexKeys(_)
IndexKeys(pkgs) ==
    IF Len(pkgs) = 0 THEN <<>>
    ELSE LET front == IndexKeys(SubSeq(pkgs, 1, Len(pkgs) - 1))
             k == Lower(pkgs[Len(pkgs)].id)
         IN  IF \E i \in 1..Len(front) : front[i] = k THEN front ELSE Append(front, k)

BuildIndex(pkgs) ==
    LET keys == IndexKeys(pkgs)
    IN  [keys |-> keys,
         recs |-> [k \in {keys[i] : i \in 1..Len(keys)} |->
                      SelectSeq(pkgs, LAMBDA p : Lower(p.id) = k)]]

\* package_id in packages
InIndex(index, id) == id \in DOMAIN index.recs

\* ".".join(package_id.split(".")[2:4])
MsvcVersionKey(package_id) == Join(PySlice(Split(package_id, "."), 2, 4), Dot)

\* the test that guards msvc_versions[version] = package_id
MsvcKeyAccepted(version) == IsDigit(version[1])

IsMsvcToolsId(package_id) ==
    StartsWith(package_id, MSVC_PREFIX) /\ EndsWith(package_id, MSVC_SUFFIX)

\* package_id.split(".")[-1]
SdkVersionKey(package_id) ==
    LET parts == Split(package_id, ".") IN parts[Len(parts)]

IsSdkComponentId(package_id) ==
    StartsWith(package_id, SDK10_PREFIX) \/ StartsWith(package_id, SDK11_PREFIX)

\* dict assignment d[k] = v
DictSet(d, k, v) == [x \in DOMAIN d \cup {k} |-> IF x = k THEN v ELSE d[x]]

EmptyDict == [x \in {} |-> <<>>]

\* The loop over packages.items(), in key order: the dicts after the first n keys.
RECURSIVE ScanVersions(_, _)
ScanVersions(keys, n) ==
    IF n = 0 THEN [msvc |-> EmptyDict, sdk |-> EmptyDict]
    ELSE LET acc == ScanVersions(keys, n - 1)
             package_id == keys[n]
         IN  IF IsMsvcToolsId(package_id)
             THEN IF MsvcKeyAccepted(MsvcVersionKey(package_id))
                  THEN [acc EXCEPT !.msvc = DictSet(@, MsvcVersionKey(package_id), package_id)]
                  ELSE acc
             ELSE IF IsSdkComponentId(package_id)
             THEN IF IsNumeric(SdkVersionKey(package_id))
                  THEN [acc EXCEPT !.sdk = DictSet(@, SdkVersionKey(package_id), package_id)]
                  ELSE acc
             ELSE acc

parse_available_versions ==
    /\ pc = "parse_available_versions"
    /\ packages' = BuildIndex(vs_manifest)
    /\ \E found \in {ScanVersions(packages'.keys, Len(packages'.keys))} :
          /\ msvc_versions' = found.msvc
          /\ sdk_versions' = found.sdk
    /\ pc' = "select_versions"
    /\ UNCHANGED <<exit, inputVars, tlsVars, selections, dirs, loopVars, sdkVars, fetchVars,
                   extracted, reported, envVars>>

----------------------------------------------------------------------------
(* select_versions *)

\* Python truth of an optional str argument: None and "" are both false.
Truthy(x) == x # None /\ x # <<>>

\* ".".join(msvc_package_id.split(".")[2:6])
FullMsvcVersion(msvc_package_id) == Join(PySlice(Split(msvc_package_id, "."), 2, 6), Dot)

\* The outcome of one call: the returned tuple, a sys.exit, or an exception.
SelectOutcome(a, msvc, sdk) ==
    IF a.show_versions THEN [exit |-> SysExit("show_versions", <<>>), value |-> <<>>]
    ELSE IF ~Truthy(a.msvc_version) /\ DOMAIN msvc = {}
    THEN [exit |-> Crash("ValueError"), value |-> <<>>]
    ELSE LET msvc_ver == IF Truthy(a.msvc_version) THEN a.msvc_version
                         ELSE StrMax(DOMAIN msvc)
         IN  IF msvc_ver \notin DOMAIN msvc
             THEN [exit |-> SysExit("Unknown MSVC version", msvc_ver), value |-> <<>>]
             ELSE IF ~Truthy(a.sdk_version) /\ DOMAIN sdk = {}
             THEN [exit |-> Crash("ValueError"), value |-> <<>>]
             ELSE LET sdk_ver == IF Truthy(a.sdk_version) THEN a.sdk_version
                                 ELSE StrMax(DOMAIN sdk)
                  IN  IF sdk_ver \notin DOMAIN sdk
                      THEN [exit |-> SysExit("Unknown Windows SDK version", sdk_ver),
                            value |-> <<>>]
                      ELSE [exit |-> Running,
                            value |-> <<FullMsvcVersion(msvc[msvc_ver]), sdk_ver,
                                        msvc[msvc_ver], sdk[sdk_ver]>>]

\* One call of select_versions: it reads the arguments and the two dicts and
\* changes neither.
CallSelectVersions ==
    \E r \in {SelectOutcome(args, msvc_versions, sdk_versions)} :
        /\ selections' = Append(selections, r)
        /\ exit' = r.exit
        /\ UNCHANGED <<inputVars, tlsVars, indexVars, dirs, loopVars, sdkVars, fetchVars,
                       extracted, reported, envVars>>

select_versions ==
    /\ pc = "select_versions"
    /\ exit.kind = "running"
    /\ CallSelectVersions
    /\ pc' = IF exit'.kind = "running" THEN "accept_license" ELSE "ended"

\* A second call on the same object, as a caller that keeps the installer would make.
select_versions_again ==
    /\ pc \in {"accept_license", "ended"}
    /\ Len(selections) >= 1
    /\ Len(selections) < MaxSelectCalls
    /\ CallSelectVersions
    /\ UNCHANGED pc

----------------------------------------------------------------------------
(* accept_license, create_directories *)

\* --accept-license is a store_true flag whose default is True: accept_license
\* returns at once.
accept_license ==
    /\ pc = "accept_license"
    /\ pc' = "create_directories"
    /\ UNCHANGED <<exit, inputVars, tlsVars, indexVars, selections, dirs, loopVars, sdkVars,
                   fetchVars, extracted, reported, envVars>>

create_directories ==
    /\ pc = "create_directories"
    /\ dirs' = dirs \cup {"msvc", "downloads"}
    /\ pc' = "download_msvc"
    /\ UNCHANGED <<exit, inputVars, tlsVars, indexVars, selections, loopVars, sdkVars, fetchVars,
                   extracted, reported, envVars>>

----------------------------------------------------------------------------
(* Inputs: SDK packages, installer packages and their sub-archives *)

Dep_Win11SDK == <<"W", "i", "n", "1", "1", "S", "D", "K", "_", "1", "0", ".", "0", ".", "9">>

Dep_Win11SDK_Missing ==
    <<"W", "i", "n", "1", "1", "S", "D", "K", "_", "1", "0", ".", "0", ".", "8">>

CabA ==
    <<"0", "b", "2", "a", "4", "9", "8", "7", "4", "2", "1", "d", "9", "5", "d", "0", "c", "b",
      "3", "7", "6", "4", "0", "8", "8", "9", "a", "a", "9", "e", "9", "b", ".", "c", "a", "b">>

CabB ==
    <<"f", "e", "3", "8", "b", "2", "f", "d", "0", "d", "4", "4", "0", "e", "3", "c", "6", "7",
      "4", "0", "b", "6", "2", "6", "f", "5", "1", "a", "2", "2", "f", "c", ".", "c", "a", "b">>

Str_MSI == <<"M", "S", "I">>

Str_Media_cab == <<"M", "e", "d", "i", "a", "1", ".", "c", "a", "b">>

\* The installer packages the vendor publishes: a header, then the names of
\* the sub-archives; one of them also holds ".cab" in a string that names no file.
SdkOrigin(url) ==
    CASE url = "https://vendor/sdk/headers.msi" -> Str_MSI \o CabA
      [] url = "https://vendor/sdk/crt.msi" -> Str_MSI \o CabB \o CabA
      [] url = "https://vendor/sdk/libs.msi" -> Str_MSI \o CabA \o Str_Media_cab \o CabB
      [] url = "https://vendor/sdk/tools.msi" -> Str_MSI
      [] url = "https://vendor/sdk/a.cab" -> <<"M", "S", "C", "F", "a">>
      [] url = "https://vendor/sdk/b.cab" -> <<"M", "S", "C", "F", "b">>
      [] OTHER -> <<>>

----------------------------------------------------------------------------
(* The servers behind the payload URLs *)

\* The bytes the vendor published under each URL of the input manifests.
Origin(url) ==
    CASE url = "https://vendor/dia.vsix" -> <<"P", "K", "x">>
      [] url = "https://vendor/headers.vsix" -> <<"P", "K", "h", "1">>
      [] url = "https://vendor/tools.vsix" -> <<"P", "K", "t">>
      [] url = "https://vendor/redist.vsix" -> <<"P", "K", "r">>
      [] OTHER -> SdkOrigin(url)

\* What a damaged or tampered transfer may deliver instead: the last byte
\* changed, or the published bytes followed by more.
Tampered(body) ==
    {body \o <<"!">>}
    \cup (IF Len(body) = 0 THEN {}
          ELSE {[body EXCEPT ![Len(body)] = IF @ = "!" THEN "?" ELSE "!"]})

\* The answers urlopen may get: the body, or the error it raises.
Responses(net, url) ==
    (IF "ok" \in net THEN {[error |-> "", body |-> Origin(url)]} ELSE {})
    \cup (IF "tampered" \in net
          THEN {[error |-> "", body |-> b] : b \in Tampered(Origin(url))} ELSE {})
    \cup (IF "url_error" \in net THEN {[error |-> "URLError", body |-> <<>>]} ELSE {})
    \cup (IF "no_length" \in net THEN {[error |-> "TypeError", body |-> <<>>]} ELSE {})

\* One payload object of the manifest, its sha256 as given.
Payload(fileName, url, sha256) == [fileName |-> fileName, url |-> url, sha256 |-> sha256]

----------------------------------------------------------------------------
(* VSInstaller.__init__, setup_ssl_context, get_manifest, get_vs_manifest *)

\* self._find_first_item(items, condition), given the positions of the items
\* that meet the condition: the first of them, 0 when there is none (the
\* code's None).
FirstIndex(hits) == IF hits = {} THEN 0 ELSE CHOOSE i \in hits : \A j \in hits : i <= j

MANIFEST_URL == "https://aka.ms/vs/17/release/channel"
MANIFEST_PREVIEW_URL == "https://aka.ms/vs/17/pre/channel"

\* The URL of the VS manifest that the channel manifests of the inputs give.
VsManifestUrl == "https://download.visualstudio.microsoft.com/release/vs.manifest"
VsPreviewManifestUrl == "https://download.visualstudio.microsoft.com/pre/vs.manifest"

\* The server a URL is fetched from.
Host(url) ==
    CASE url \in {MANIFEST_URL, MANIFEST_PREVIEW_URL} -> "aka.ms"
      [] url \in {VsManifestUrl, VsPreviewManifestUrl} -> "download.visualstudio.microsoft.com"
      [] OTHER -> "vendor"

\* ssl_context = None: the default trust store; the certifi bundle after line 217.
DefaultContext == "None"
CertifiContext == "certifi"

\* urllib.error.URLError whose args[0] is an ssl.SSLCertVerificationError
CertError == "URLError(SSLCertVerificationError)"

\* urlopen(url, context=ssl_context): the certificate is checked before any
\* byte of the answer is read.
Transport(net, rej, context, url) ==
    IF <<Host(url), context>> \in rej
    THEN {[error |-> CertError, body |-> <<>>]}
    ELSE Responses(net, url)

\* DownloadManager.simple_download(url): the error raised, "" when the body
\* is returned.  No header is read, so a missing Content-Length is no error.
SimpleDownload(net, rej, context, url) ==
    IF <<Host(url), context>> \in rej THEN {CertError}
    ELSE (IF net \cap {"ok", "no_length"} # {} THEN {""} ELSE {})
         \cup (IF "url_error" \in net THEN {"URLError"} ELSE {})

\* One call of urlopen, for the history.
Request(url, context, error) == [url |-> url, context |-> context, error |-> error]

\* A test that accepts every name.
NoUnknownTarget(targets) == 0

\* _validate_targets: the position of the first target that is not in
\* ALL_TARGETS, 0 when all are.
FirstUnknownTarget(targets) ==
    FirstIndex({n \in 1..Len(targets) :
                    targets[n] \notin {ALL_TARGETS[k] : k \in 1..Len(ALL_TARGETS)}})

\* Lines 182-196: args.target is split at the commas and every entry is tested.
init ==
    /\ pc = "init"
    /\ \E targets \in {Split(args.target, ",")} :
          /\ args' = [args EXCEPT !.targets = targets]
          /\ IF FirstUnknownTarget(targets) # 0
             THEN /\ exit' = SysExit("Unknown target architecture",
                                     targets[FirstUnknownTarget(targets)])
                  /\ pc' = "ended"
             ELSE /\ pc' = "get_manifest"
                  /\ UNCHANGED exit
    /\ UNCHANGED <<vs_manifest, network, tlsVars, indexVars, selections, dirs, loopVars,
                   sdkVars, fetchVars, extracted, reported, envVars>>

\* self._get_manifest_url()
ManifestUrl(a) == IF a.preview THEN MANIFEST_PREVIEW_URL ELSE MANIFEST_URL

\* Lines 211-221: what follows a certificate verification error.
AfterCertError(importable) == IF importable THEN "retry" ELSE "exit"

\* Lines 206-223 and 229-232: the first download of the channel manifest.
get_manifest ==
    /\ pc = "get_manifest"
    /\ \E error \in SimpleDownload(network, rejected, ssl_context, ManifestUrl(args)) :
          /\ requests' = Append(requests, Request(ManifestUrl(args), ssl_context, error))
          /\ IF error = ""
             THEN /\ pc' = "get_vs_manifest"
                  /\ UNCHANGED <<exit, ssl_context>>
             ELSE IF error # CertError
             THEN /\ exit' = Crash(error)
                  /\ pc' = "ended"
                  /\ UNCHANGED ssl_context
             ELSE IF AfterCertError(certifi) = "retry"
             THEN /\ ssl_context' = CertifiContext
                  /\ pc' = "ssl_retry"
                  /\ UNCHANGED exit
             ELSE /\ exit' = SysExit("Please install 'certifi' package", <<"1">>)
                  /\ pc' = "ended"
                  /\ UNCHANGED ssl_context
    /\ UNCHANGED <<inputVars, main_manifest, certifi, rejected, indexVars, selections, dirs,
                   loopVars, sdkVars, fetchVars, extracted, reported, envVars>>

\* Line 218: the second download, with the certifi bundle; whatever it raises
\* but ModuleNotFoundError leaves setup_ssl_context.
ssl_retry ==
    /\ pc = "ssl_retry"
    /\ \E error \in SimpleDownload(network, rejected, ssl_context, ManifestUrl(args)) :
          /\ requests' = Append(requests, Request(ManifestUrl(args), ssl_context, error))
          /\ IF error = ""
             THEN /\ pc' = "get_vs_manifest"
                  /\ UNCHANGED exit
             ELSE /\ exit' = Crash(error)
                  /\ pc' = "ended"
    /\ UNCHANGED <<inputVars, main_manifest, certifi, rejected, ssl_context, indexVars,
                   selections, dirs, loopVars, sdkVars, fetchVars, extracted, reported,
                   envVars>>

Item_VisualStudio ==
    <<"M", "i", "c", "r", "o", "s", "o", "f", "t", ".", "V", "i", "s", "u", "a", "l", "S", "t",
      "u", "d", "i", "o", ".", "M", "a", "n", "i", "f", "e", "s", "t", "s", ".", "V", "i", "s",
      "u", "a", "l", "S", "t", "u", "d", "i", "o">>

Item_VisualStudioPreview == Item_VisualStudio \o <<"P", "r", "e", "v", "i", "e", "w">>

\* One channel item: its id and the URLs of its payloads.
ChannelItem(id, urls) == [id |-> id, payloads |-> [n \in 1..Len(urls) |-> [url |-> urls[n]]]]

\* Lines 236-245: the URL of the first payload of the channel item, or the
\* exception the lookup raises.
VsManifestPayload(items, a) ==
    LET item_name == IF a.preview THEN Item_VisualStudioPreview ELSE Item_VisualStudio
        vs_item == FirstIndex({n \in 1..Len(items) : items[n].id = item_name})
    IN  IF vs_item = 0 THEN [exit |-> Crash("TypeError"), url |-> ""]
        ELSE IF Len(items[vs_item].payloads) = 0
        THEN [exit |-> Crash("IndexError"), url |-> ""]
        ELSE [exit |-> Running, url |-> items[vs_item].payloads[1].url]

\* Lines 234-248: one download, inside no try statement.
get_vs_manifest ==
    /\ pc = "get_vs_manifest"
    /\ \E r \in {VsManifestPayload(main_manifest, args)} :
          IF r.exit.kind # "running"
          THEN /\ exit' = r.exit
               /\ pc' = "ended"
               /\ UNCHANGED requests
          ELSE \E error \in SimpleDownload(network, rejected, ssl_context, r.url) :
                  /\ requests' = Append(requests, Request(r.url, ssl_context, error))
                  /\ IF error = ""
                     THEN /\ pc' = "parse_available_versions"
                          /\ UNCHANGED exit
                     ELSE /\ exit' = Crash(error)
                          /\ pc' = "ended"
    /\ UNCHANGED <<inputVars, main_manifest, certifi, rejected, ssl_context, indexVars,
                   selections, dirs, loopVars, sdkVars, fetchVars, extracted, reported,
                   envVars>>

\* The two requests a run has made when it has both manifests, on servers
\* whose certificates the default trust store accepts.
ManifestRequests ==
    << Request(MANIFEST_URL, DefaultContext, ""), Request(VsManifestUrl, DefaultContext, "") >>
----------------------------------------------------------------------------
(* DownloadManager.download_with_progress *)

NoCall ==
    [state |-> "none", url |-> "", expected_hash |-> <<>>, filename |-> <<>>,
     caller |-> "", start |-> None, left |-> FALSE, requests |-> 0, body |-> <<>>,
     data_buffer |-> <<>>, result |-> <<>>]

\* download_with_progress(url, expected_hash, filename) is entered.
NewCall(url, expected_hash, filename, caller) ==
    [state |-> "running", url |-> url, expected_hash |-> expected_hash,
     filename |-> filename, caller |-> caller, start |-> None, left |-> FALSE,
     requests |-> 0, body |-> <<>>, data_buffer |-> <<>>, result |-> <<>>]

\* What the call finds under its file name: the file's bytes, or None, and
\* whether an earlier download that did not return left the file there.
Found(call, files, left) ==
    [call EXCEPT !.start = IF call.filename \in DOMAIN files THEN files[call.filename]
                           ELSE None,
                 !.left = call.filename \in left]

\* Where the caller goes on when the call returns.
Continuation(caller) ==
    CASE caller = "download_msvc" -> "msvc_extract"
      [] caller = "sdk_msi" -> "sdk_msi_scan"
      [] caller = "sdk_cab" -> "sdk_cab_next"

\* A comparison that forgets to lower-case the expected hash.
HashMatchesExact(data, expected_hash) == Sha256(data) = expected_hash

\* hashlib.sha256(data).hexdigest() == expected_hash.lower()
HashMatches(data, expected_hash) == Sha256(data) = Lower(expected_hash)

\* A cache test that looks for the file only.
CacheHitIfExists(files, filename, expected_hash) == filename \in DOMAIN files

\* file_path.exists() and the digest of its bytes is the expected one
CacheHit(files, filename, expected_hash) ==
    filename \in DOMAIN files /\ HashMatches(files[filename], expected_hash)

\* open("wb"): the file exists and is empty.
Truncate(files, filename) ==
    [f \in DOMAIN files \cup {filename} |-> IF f = filename THEN <<>> ELSE files[f]]

\* Lines 123-133: return the cached bytes, or open the cache file for writing.
dl_check ==
    /\ pc = "dl_check"
    /\ IF CacheHit(cache, dl.filename, dl.expected_hash)
       THEN /\ dl' = [Found(dl, cache, leftover) EXCEPT !.state = "returned",
                                                          !.result = cache[dl.filename]]
            /\ returned' = Append(returned, dl.filename)
            /\ pc' = Continuation(dl.caller)
            /\ UNCHANGED <<cache, leftover>>
       ELSE /\ dl' = Found(dl, cache, leftover)
            /\ cache' = Truncate(cache, dl.filename)
            /\ leftover' = leftover \cup {dl.filename}
            /\ pc' = "dl_request"
            /\ UNCHANGED returned
    /\ UNCHANGED <<exit, inputVars, tlsVars, indexVars, selections, dirs, loopVars, sdkVars,
                   total_bytes, netlog, extracted, reported, envVars>>

\* Lines 136-138: urlopen, under the global ssl_context, and the
\* Content-Length header.
dl_request ==
    /\ pc = "dl_request"
    /\ netlog' = Append(netlog, dl.filename)
    /\ \E resp \in Transport(network, rejected, ssl_context, dl.url) :
          /\ requests' = Append(requests, Request(dl.url, ssl_context, resp.error))
          /\ IF resp.error # ""
             THEN /\ dl' = [dl EXCEPT !.state = "crash", !.requests = @ + 1]
                  /\ exit' = Crash(resp.error)
                  /\ pc' = "ended"
             ELSE /\ dl' = [dl EXCEPT !.requests = @ + 1, !.body = resp.body]
                  /\ pc' = "dl_read"
                  /\ UNCHANGED exit
    /\ UNCHANGED <<inputVars, main_manifest, certifi, rejected, ssl_context, indexVars,
                   selections, dirs, loopVars, sdkVars, cache, total_bytes, returned,
                   leftover, extracted, reported, envVars>>

\* Lines 140-150: one turn of the read loop.
dl_read ==
    /\ pc = "dl_read"
    /\ LET chunk == SubSeq(dl.body, 1, Min(ChunkSize, Len(dl.body)))
       IN  IF Len(chunk) = 0
           THEN /\ pc' = "dl_verify"
                /\ UNCHANGED <<cache, dl>>
           ELSE /\ cache' = [cache EXCEPT ![dl.filename] = @ \o chunk]
                /\ dl' = [dl EXCEPT !.data_buffer = @ \o chunk,
                                    !.body = SubSeq(@, Len(chunk) + 1, Len(@))]
                /\ UNCHANGED pc
    /\ UNCHANGED <<exit, inputVars, tlsVars, indexVars, selections, dirs, loopVars, sdkVars,
                   total_bytes, netlog, returned, leftover, extracted, reported, envVars>>

\* A verification that lets the run go on after a mismatch.
VerifyOutcomeLenient(data, expected_hash) == "return"

\* Lines 155-158: what the verification of the downloaded bytes decides.
VerifyOutcome(data, expected_hash) ==
    IF Lower(expected_hash) # Sha256(data) THEN "exit" ELSE "return"

\* Lines 154-161: verify, count, return.
dl_verify ==
    /\ pc = "dl_verify"
    /\ IF VerifyOutcome(dl.data_buffer, dl.expected_hash) = "exit"
       THEN /\ dl' = [dl EXCEPT !.state = "exit"]
            /\ exit' = SysExit("Hash mismatch", dl.filename)
            /\ pc' = "ended"
            /\ UNCHANGED <<total_bytes, returned, leftover>>
       ELSE /\ dl' = [dl EXCEPT !.state = "returned", !.result = dl.data_buffer]
            /\ total_bytes' = total_bytes + Len(dl.data_buffer)
            /\ returned' = Append(returned, dl.filename)
            /\ leftover' = leftover \ {dl.filename}
            /\ pc' = Continuation(dl.caller)
            /\ UNCHANGED exit
    /\ UNCHANGED <<inputVars, tlsVars, indexVars, selections, dirs, loopVars, sdkVars, cache,
                   netlog, extracted, reported, envVars>>

----------------------------------------------------------------------------
(* MSIParser.extract_cab_files *)

DotCab == <<".", "c", "a", "b">>

\* The width of a sub-archive name before its ".cab".
NameWidth == 32

\* bytes.find(sub, start): the offset (from 0) of the first occurrence of sub at
\* or after start, -1 when there is none.
Find(data, sub, start) ==
    LET hits == {i \in start..(Len(data) - Len(sub)) : SubSeq(data, i + 1, i + Len(sub)) = sub}
    IN  IF hits = {} THEN -1 ELSE CHOOSE i \in hits : \A j \in hits : i <= j

\* bytes.decode("ascii") succeeds.
IsAscii(data) == \A i \in 1..Len(data) : Ord[data[i]] < 128

\* The while loop from the value index has after a turn: the names appended to
\* cab_files, or the UnicodeDecodeError a name raises.
RECURSIVE ScanCabs(_, _, _)
ScanCabs(msi_data_, index, cab_files_) ==
    LET found == Find(msi_data_, DotCab, index + 4)
        cab_name == PySlice(msi_data_, found - NameWidth, found + 4)
    IN  IF found < 0 THEN [exit |-> Running, value |-> cab_files_]
        ELSE IF ~IsAscii(cab_name)
        THEN [exit |-> Crash("UnicodeDecodeError"), value |-> cab_files_]
        ELSE ScanCabs(msi_data_, found, Append(cab_files_, cab_name))

extract_cab_files(msi_data_) == ScanCabs(msi_data_, 0, <<>>)

\* One call of extract_cab_files on a buffer, outside any run.
call_extract_cab_files ==
    /\ pc = "extract_cab_files"
    /\ \E r \in {extract_cab_files(msi_data)} :
          /\ cab_files' = r.value
          /\ exit' = r.exit
    /\ pc' = "ended"
    /\ UNCHANGED <<inputVars, tlsVars, indexVars, selections, dirs, loopVars, msi_files, msi_data,
                   fetchVars, extracted, reported, envVars>>

----------------------------------------------------------------------------
(* VSInstaller.download_msvc *)

\* A record without the "dependencies" key.
NoDependencies == <<None>>

BasePackages(msvc_version) ==
    << Str_dia_sdk,
       MSVC_PREFIX \o msvc_version \o Str_crt_headers_base,
       MSVC_PREFIX \o msvc_version \o Str_crt_source_base,
       MSVC_PREFIX \o msvc_version \o Str_asan_headers_base,
       MSVC_PREFIX \o msvc_version \o Str_pgo_headers_base >>

TargetPackages(msvc_version, host, target) ==
    << MSVC_PREFIX \o msvc_version \o Str_tools_host \o host \o Str_target \o target
           \o Str_base,
       MSVC_PREFIX \o msvc_version \o Str_tools_host \o host \o Str_target \o target
           \o Str_res_base,
       MSVC_PREFIX \o msvc_version \o Str_crt \o target \o Str_desktop_base,
       MSVC_PREFIX \o msvc_version \o Str_crt \o target \o Str_store_base,
       MSVC_PREFIX \o msvc_version \o Str_premium_tools_host \o host \o Str_target
           \o target \o Str_base,
       MSVC_PREFIX \o msvc_version \o Str_pgo \o target \o Str_base >>

\* A sanitizer package for every target.
AsanPackagesAllTargets(msvc_version, target) ==
    <<MSVC_PREFIX \o msvc_version \o Str_asan \o target \o Str_base>>

\* if target in ["x86", "x64"]: the sanitizer runtime
AsanPackages(msvc_version, target) ==
    IF target \in {X86, X64}
    THEN <<MSVC_PREFIX \o msvc_version \o Str_asan \o target \o Str_base>>
    ELSE <<>>

RedistSuffix(target) == IF target = ARM THEN Str_onecore_desktop ELSE <<>>

RedistPkg(msvc_version, target) ==
    MSVC_PREFIX \o msvc_version \o Str_crt_redist \o target \o RedistSuffix(target)
        \o Str_base

RedistName(target) == Str_visualcpp_crt_redist \o target \o RedistSuffix(target)

\* self._find_first_item(redist["dependencies"], lambda dep: dep.endswith(".base"))
FallbackDependency(dependencies) ==
    FirstIndex({i \in 1..Len(dependencies) : EndsWith(dependencies[i], Str_base)})

\* Lines 358-368: the redistributable's package name for one target, or the
\* exception the lookup raises.
ResolveRedist(index, msvc_version, target) ==
    IF InIndex(index, RedistPkg(msvc_version, target))
    THEN [exit |-> Running, pkg |-> RedistPkg(msvc_version, target)]
    ELSE IF ~InIndex(index, RedistName(target))
    THEN [exit |-> Crash("KeyError"), pkg |-> <<>>]
    ELSE LET redist == index.recs[RedistName(target)][1]
         IN  IF redist.dependencies = NoDependencies
             THEN [exit |-> Crash("KeyError"), pkg |-> <<>>]
             ELSE IF FallbackDependency(redist.dependencies) = 0
             THEN [exit |-> Crash("AttributeError"), pkg |-> <<>>]
             ELSE [exit |-> Running,
                   pkg |-> Lower(redist.dependencies[FallbackDependency(redist.dependencies)])]

\* Lines 332-370: the list after the first n targets, or the exception raised.
RECURSIVE ExpandTargets(_, _, _, _, _)
ExpandTargets(index, msvc_version, host, targets, n) ==
    IF n = 0 THEN [exit |-> Running, list |-> BasePackages(msvc_version)]
    ELSE LET prev == ExpandTargets(index, msvc_version, host, targets, n - 1)
             redist == ResolveRedist(index, msvc_version, targets[n])
         IN  IF prev.exit.kind # "running" THEN prev
             ELSE IF redist.exit.kind # "running"
             THEN [exit |-> redist.exit, list |-> prev.list]
             ELSE [exit |-> Running,
                   list |-> prev.list \o TargetPackages(msvc_version, host, targets[n])
                            \o AsanPackages(msvc_version, targets[n]) \o <<redist.pkg>>]

\* sorted(names): ascending in str order, equal names kept in their order.
RECURSIVE Sorted(_)
Sorted(names) ==
    IF Len(names) <= 1 THEN names
    ELSE LET front == Sorted(SubSeq(names, 1, Len(names) - 1))
             x == names[Len(names)]
             k == Cardinality({i \in 1..Len(front) : ~StrLess(x, front[i])})
         IN  SubSeq(front, 1, k) \o <<x>> \o SubSeq(front, k + 1, Len(front))

\* Lines 329-373: build the list and enter the loop over the sorted names.
download_msvc ==
    /\ pc = "download_msvc"
    /\ \E r \in {ExpandTargets(packages, selections[1].value[1], args.host, args.targets,
                               Len(args.targets))} :
          IF r.exit.kind # "running"
          THEN /\ exit' = r.exit
               /\ pc' = "ended"
               /\ UNCHANGED loopVars
          ELSE /\ msvc_packages' = r.list
               /\ todo' = Sorted(r.list)
               /\ pkg_i' = 1
               /\ payload_i' = 1
               /\ pc' = "msvc_loop"
               /\ UNCHANGED exit
    /\ UNCHANGED <<inputVars, tlsVars, indexVars, selections, dirs, sdkVars, fetchVars, extracted,
                   reported, envVars>>

\* packages[package_name] filtered by p.get("language") in (None, "en-US")
LanguageRecord(recs) ==
    FirstIndex({i \in 1..Len(recs) : recs[i].language \in {None, Str_en_US}})

\* Lines 373-386: the head of the two nested loops: the next package, the next
\* payload of the current package, or the end of download_msvc.
msvc_loop ==
    /\ pc = "msvc_loop"
    /\ IF pkg_i > Len(todo)
       THEN /\ pc' = "download_sdk"
            /\ UNCHANGED <<exit, pkg_i, payload_i, dl, reported>>
       ELSE IF ~InIndex(packages, todo[pkg_i])
       THEN /\ reported' = Append(reported, todo[pkg_i])
            /\ pkg_i' = pkg_i + 1
            /\ UNCHANGED <<pc, exit, payload_i, dl>>
       ELSE IF LanguageRecord(packages.recs[todo[pkg_i]]) = 0
       THEN /\ exit' = Crash("TypeError")
            /\ pc' = "ended"
            /\ UNCHANGED <<pkg_i, payload_i, dl, reported>>
       ELSE LET recs == packages.recs[todo[pkg_i]]
                package == recs[LanguageRecord(recs)]
            IN  IF payload_i > Len(package.payloads)
                THEN /\ pkg_i' = pkg_i + 1
                     /\ payload_i' = 1
                     /\ UNCHANGED <<pc, exit, dl, reported>>
                ELSE /\ dl' = NewCall(package.payloads[payload_i].url,
                                      package.payloads[payload_i].sha256,
                                      package.payloads[payload_i].fileName,
                                      "download_msvc")
                     /\ pc' = "dl_check"
                     /\ UNCHANGED <<exit, pkg_i, payload_i, reported>>
    /\ UNCHANGED <<inputVars, tlsVars, indexVars, selections, dirs, msvc_packages, todo, sdkVars,
                   cache, total_bytes, netlog, returned, leftover, extracted, envVars>>

\* Lines 388-396: the archive is opened from the cache file and its Contents/
\* entries are written under OUTPUT_DIR.
msvc_extract ==
    /\ pc = "msvc_extract"
    /\ extracted' = Append(extracted, dl.filename)
    /\ payload_i' = payload_i + 1
    /\ pc' = "msvc_loop"
    /\ UNCHANGED <<exit, inputVars, tlsVars, indexVars, selections, dirs, msvc_packages, todo, pkg_i,
                   sdkVars, fetchVars, reported, envVars>>

----------------------------------------------------------------------------
(* VSInstaller.download_sdk *)

Msi_StoreAppsTools ==
    <<"W", "i", "n", "d", "o", "w", "s", " ", "S", "D", "K", " ", "f", "o", "r", " ", "W", "i",
      "n", "d", "o", "w", "s", " ", "S", "t", "o", "r", "e", " ", "A", "p", "p", "s", " ", "T",
      "o", "o", "l", "s", "-", "x", "8", "6", "_", "e", "n", "-", "u", "s", ".", "m", "s", "i">>

Msi_StoreAppsHeaders ==
    <<"W", "i", "n", "d", "o", "w", "s", " ", "S", "D", "K", " ", "f", "o", "r", " ", "W", "i",
      "n", "d", "o", "w", "s", " ", "S", "t", "o", "r", "e", " ", "A", "p", "p", "s", " ", "H",
      "e", "a", "d", "e", "r", "s", "-", "x", "8", "6", "_", "e", "n", "-", "u", "s", ".", "m",
      "s", "i">>

Msi_StoreAppsHeadersOnecoreUap ==
    <<"W", "i", "n", "d", "o", "w", "s", " ", "S", "D", "K", " ", "f", "o", "r", " ", "W", "i",
      "n", "d", "o", "w", "s", " ", "S", "t", "o", "r", "e", " ", "A", "p", "p", "s", " ", "H",
      "e", "a", "d", "e", "r", "s", " ", "O", "n", "e", "c", "o", "r", "e", "U", "a", "p", "-",
      "x", "8", "6", "_", "e", "n", "-", "u", "s", ".", "m", "s", "i">>

Msi_StoreAppsLibs ==
    <<"W", "i", "n", "d", "o", "w", "s", " ", "S", "D", "K", " ", "f", "o", "r", " ", "W", "i",
      "n", "d", "o", "w", "s", " ", "S", "t", "o", "r", "e", " ", "A", "p", "p", "s", " ", "L",
      "i", "b", "s", "-", "x", "8", "6", "_", "e", "n", "-", "u", "s", ".", "m", "s", "i">>

Msi_UniversalCrt ==
    <<"U", "n", "i", "v", "e", "r", "s", "a", "l", " ", "C", "R", "T", " ", "H", "e", "a", "d",
      "e", "r", "s", " ", "L", "i", "b", "r", "a", "r", "i", "e", "s", " ", "a", "n", "d", " ",
      "S", "o", "u", "r", "c", "e", "s", "-", "x", "8", "6", "_", "e", "n", "-", "u", "s", ".",
      "m", "s", "i">>

Str_DesktopHeaders ==
    <<"W", "i", "n", "d", "o", "w", "s", " ", "S", "D", "K", " ", "D", "e", "s", "k", "t", "o",
      "p", " ", "H", "e", "a", "d", "e", "r", "s", " ">>

Str_OnecoreUapHeaders ==
    <<"W", "i", "n", "d", "o", "w", "s", " ", "S", "D", "K", " ", "O", "n", "e", "c", "o", "r",
      "e", "U", "a", "p", " ", "H", "e", "a", "d", "e", "r", "s", " ">>

Str_DesktopLibs ==
    <<"W", "i", "n", "d", "o", "w", "s", " ", "S", "D", "K", " ", "D", "e", "s", "k", "t", "o",
      "p", " ", "L", "i", "b", "s", " ">>

Str_x86_en_us_msi == <<"-", "x", "8", "6", "_", "e", "n", "-", "u", "s", ".", "m", "s", "i">>

Str_Installers == <<"I", "n", "s", "t", "a", "l", "l", "e", "r", "s", "\\">>

\* The two header packages of one target.
HeaderNames(target) ==
    << Str_DesktopHeaders \o target \o Str_x86_en_us_msi,
       Str_OnecoreUapHeaders \o target \o Str_x86_en_us_msi >>

\* Lines 403-421: the installer packages asked for.
sdk_packages(targets) ==
    << Msi_StoreAppsTools, Msi_StoreAppsHeaders, Msi_StoreAppsHeadersOnecoreUap,
       Msi_StoreAppsLibs, Msi_UniversalCrt >>
    \o HeaderNames(ALL_TARGETS[1]) \o HeaderNames(ALL_TARGETS[2])
    \o HeaderNames(ALL_TARGETS[3]) \o HeaderNames(ALL_TARGETS[4])
    \o [n \in 1..Len(targets) |-> Str_DesktopLibs \o targets[n] \o Str_x86_en_us_msi]

\* Lines 425-428: the record that holds the SDK's payloads, reached through the
\* first dependency of the selected component, or the exception the lookup raises.
ResolveSdkPackage(index, sdk_package_id) ==
    LET component == index.recs[sdk_package_id][1]
    IN  IF component.dependencies = NoDependencies
        THEN [exit |-> Crash("KeyError"), id |-> <<>>]
        ELSE IF Len(component.dependencies) = 0
        THEN [exit |-> Crash("AttributeError"), id |-> <<>>]
        ELSE IF ~InIndex(index, Lower(component.dependencies[1]))
        THEN [exit |-> Crash("KeyError"), id |-> <<>>]
        ELSE [exit |-> Running, id |-> Lower(component.dependencies[1])]

\* sdk_package["payloads"]
SdkPayloads(index, sdk_package_id) ==
    index.recs[ResolveSdkPackage(index, sdk_package_id).id][1].payloads

\* self._find_first_item(sdk_package["payloads"], lambda p: p["fileName"] ==
\* f"Installers\\{name}"): the position of the payload, 0 for None.
FindPayload(payloads, name) ==
    FirstIndex({i \in 1..Len(payloads) : payloads[i].fileName = Str_Installers \o name})

\* Lines 400-431: the list of installer packages and the SDK's record.
download_sdk ==
    /\ pc = "download_sdk"
    /\ \E r \in {ResolveSdkPackage(packages, selections[1].value[4])} :
          IF r.exit.kind # "running"
          THEN /\ exit' = r.exit
               /\ pc' = "ended"
               /\ UNCHANGED <<todo, pkg_i, msi_files, cab_files>>
          ELSE /\ todo' = Sorted(sdk_packages(args.targets))
               /\ pkg_i' = 1
               /\ msi_files' = <<>>
               /\ cab_files' = <<>>
               /\ pc' = "sdk_msi_loop"
               /\ UNCHANGED exit
    /\ UNCHANGED <<inputVars, tlsVars, indexVars, selections, dirs, msvc_packages, payload_i, msi_data,
                   fetchVars, extracted, reported, envVars>>

\* Lines 434-445: the head of the loop over the installer packages.
sdk_msi_loop ==
    /\ pc = "sdk_msi_loop"
    /\ \E payloads \in {SdkPayloads(packages, selections[1].value[4])} :
          IF pkg_i > Len(todo)
          THEN /\ todo' = cab_files
               /\ pkg_i' = 1
               /\ pc' = "sdk_cab_loop"
               /\ UNCHANGED <<msi_files, dl>>
          ELSE IF FindPayload(payloads, todo[pkg_i]) = 0
          THEN /\ pkg_i' = pkg_i + 1
               /\ UNCHANGED <<pc, todo, msi_files, dl>>
          ELSE /\ msi_files' = Append(msi_files, todo[pkg_i])
               /\ dl' = NewCall(payloads[FindPayload(payloads, todo[pkg_i])].url,
                                payloads[FindPayload(payloads, todo[pkg_i])].sha256,
                                todo[pkg_i], "sdk_msi")
               /\ pc' = "dl_check"
               /\ UNCHANGED <<todo, pkg_i>>
    /\ UNCHANGED <<exit, inputVars, tlsVars, indexVars, selections, dirs, msvc_packages, payload_i,
                   cab_files, msi_data, cache, total_bytes, netlog, returned, leftover,
                   extracted, reported, envVars>>

\* Line 446: cab_files.extend(self.msi_parser.extract_cab_files(data))
sdk_msi_scan ==
    /\ pc = "sdk_msi_scan"
    /\ msi_data' = dl.result
    /\ \E r \in {extract_cab_files(dl.result)} :
          IF r.exit.kind # "running"
          THEN /\ exit' = r.exit
               /\ pc' = "ended"
               /\ UNCHANGED <<cab_files, pkg_i>>
          ELSE /\ cab_files' = cab_files \o r.value
               /\ pkg_i' = pkg_i + 1
               /\ pc' = "sdk_msi_loop"
               /\ UNCHANGED exit
    /\ UNCHANGED <<inputVars, tlsVars, indexVars, selections, dirs, msvc_packages, todo, payload_i,
                   msi_files, fetchVars, extracted, reported, envVars>>

\* Lines 449-456: the head of the loop over the recovered names.  The payload
\* found is subscripted whether or not it is None.
sdk_cab_loop ==
    /\ pc = "sdk_cab_loop"
    /\ \E payloads \in {SdkPayloads(packages, selections[1].value[4])} :
          IF pkg_i > Len(todo)
          THEN /\ todo' = msi_files
               /\ pkg_i' = 1
               /\ pc' = "sdk_install"
               /\ UNCHANGED <<exit, dl>>
          ELSE IF FindPayload(payloads, todo[pkg_i]) = 0
          THEN /\ exit' = Crash("TypeError")
               /\ pc' = "ended"
               /\ UNCHANGED <<todo, pkg_i, dl>>
          ELSE /\ dl' = NewCall(payloads[FindPayload(payloads, todo[pkg_i])].url,
                                payloads[FindPayload(payloads, todo[pkg_i])].sha256,
                                todo[pkg_i], "sdk_cab")
               /\ pc' = "dl_check"
               /\ UNCHANGED <<exit, todo, pkg_i>>
    /\ UNCHANGED <<inputVars, tlsVars, indexVars, selections, dirs, msvc_packages, payload_i, sdkVars,
                   cache, total_bytes, netlog, returned, leftover, extracted, reported,
                   envVars>>

\* The call returned: the next name.
sdk_cab_next ==
    /\ pc = "sdk_cab_next"
    /\ pkg_i' = pkg_i + 1
    /\ pc' = "sdk_cab_loop"
    /\ UNCHANGED <<exit, inputVars, tlsVars, indexVars, selections, dirs, msvc_packages, todo,
                   payload_i, sdkVars, fetchVars, extracted, reported, envVars>>

\* Lines 461-472: msiexec /a unpacks one installer package into OUTPUT_DIR.
sdk_install ==
    /\ pc = "sdk_install"
    /\ IF pkg_i > Len(todo)
       THEN /\ pc' = "ended"
            /\ UNCHANGED <<pkg_i, extracted>>
       ELSE /\ extracted' = Append(extracted, todo[pkg_i])
            /\ pkg_i' = pkg_i + 1
            /\ UNCHANGED pc
    /\ UNCHANGED <<exit, inputVars, tlsVars, indexVars, selections, dirs, msvc_packages, todo,
                   payload_i, sdkVars, fetchVars, reported, envVars>>

----------------------------------------------------------------------------
(* The environment: a killed process, a damaged cache file, a new run *)

\* What a killed writer leaves of the bytes it has written: all of them, or all
\* but the end of the last write.
Survives(data) == {data} \cup (IF Len(data) = 0 THEN {} ELSE {SubSeq(data, 1, Len(data) - 1)})

\* The process is killed while the cache file is open for writing.
Interrupt ==
    /\ pc \in {"dl_request", "dl_read", "dl_verify"}
    /\ \E kept \in Survives(cache[dl.filename]) :
          cache' = [cache EXCEPT ![dl.filename] = kept]
    /\ dl' = [dl EXCEPT !.state = "killed"]
    /\ exit' = [kind |-> "killed", what |-> "", arg |-> <<>>]
    /\ pc' = "ended"
    /\ UNCHANGED <<inputVars, tlsVars, indexVars, selections, dirs, loopVars, sdkVars, total_bytes,
                   netlog, returned, leftover, extracted, reported, envVars>>

\* One byte of the file changed: its last.
Damaged(data) ==
    IF Len(data) = 0 THEN {}
    ELSE {[data EXCEPT ![Len(data)] = IF @ = "#" THEN "$" ELSE "#"]}

\* A cache file that no download is writing is damaged from outside.
Corrupt ==
    /\ corruptions < MaxCorruptions
    /\ \E f \in DOMAIN cache :
          /\ ~(pc \in {"dl_request", "dl_read", "dl_verify"} /\ f = dl.filename)
          /\ \E bad \in Damaged(cache[f]) : cache' = [cache EXCEPT ![f] = bad]
    /\ corruptions' = corruptions + 1
    /\ UNCHANGED <<pc, exit, inputVars, tlsVars, indexVars, selections, dirs, loopVars, sdkVars, dl,
                   total_bytes, netlog, returned, leftover, extracted, reported, runs>>

\* The program is started again on the same directories.
Restart ==
    /\ pc = "ended"
    /\ runs < MaxRuns
    /\ runs' = runs + 1
    /\ pc' = "parse_available_versions"
    /\ exit' = Running
    /\ packages' = BuildIndex(<<>>)
    /\ msvc_versions' = EmptyDict
    /\ sdk_versions' = EmptyDict
    /\ selections' = <<>>
    /\ msvc_packages' = <<>>
    /\ todo' = <<>>
    /\ pkg_i' = 1
    /\ payload_i' = 1
    /\ dl' = NoCall
    /\ total_bytes' = 0
    /\ msi_files' = <<>>
    /\ cab_files' = <<>>
    /\ msi_data' = <<>>
    /\ netlog' = <<>>
    /\ returned' = <<>>
    /\ extracted' = <<>>
    /\ reported' = <<>>
    /\ ssl_context' = DefaultContext
    /\ requests' = ManifestRequests
    /\ UNCHANGED <<inputVars, main_manifest, certifi, rejected, dirs, cache, leftover,
                   corruptions>>

----------------------------------------------------------------------------
(* Inputs: manifests and command lines for version discovery *)


V_14_39 == <<"1", "4", ".", "3", "9">>
V_14_99 == <<"1", "4", ".", "9", "9">>
V_14_39_17_9 == V_14_39 \o <<".", "1", "7", ".", "9">>
V_14_40_17_10 == <<"1", "4", ".", "4", "0", ".", "1", "7", ".", "1", "0">>

ToolsId(version, host, target) ==
    MSVC_PREFIX \o version \o Str_tools_host \o host \o Str_target \o target \o Str_base

\* As the vendor's manifest spells it, in mixed case.
ToolIdMixedCase ==
    <<"M", "i", "c", "r", "o", "s", "o", "f", "t", ".", "V", "C", ".">> \o V_14_39_17_9
    \o <<".", "T", "o", "o", "l", "s", ".", "H", "o", "s", "t", "X", "6", "4">>
    \o <<".", "T", "a", "r", "g", "e", "t", "X", "6", "4", ".", "b", "a", "s", "e">>

ToolPool ==
    << ToolIdMixedCase,
       ToolsId(V_14_40_17_10, X64, X64),
       ToolsId(V_14_39, X64, X64),
       ToolsId(<<"1", "4", ".", "3", "a", ".", "1", "7", ".", "9">>, X64, X64),
       ToolsId(<<"a", "4", ".", "3", "9", ".", "1", "7", ".", "9">>, X64, X64),
       ToolsId(<<"1", "a", ".", "3", "9", ".", "1", "7", ".", "9">>, X64, X64),
       ToolsId(<<"1", "4", ".", "4", "1", ".", "1", "7", ".", "1", "1">>, ARM64, ARM64),
       ToolsId(V_14_39_17_9, X64, X86) >>

SdkId(prefix, n) == prefix \o n

SdkPool ==
    << SdkId(SDK10_PREFIX, <<"1", "4">>),
       SdkId(SDK10_PREFIX, <<"1", "6">>),
       SdkId(SDK10_PREFIX, <<"2">>),
       SdkId(SDK11_PREFIX, <<"9">>),
       SdkId(SDK10_PREFIX, <<"i", "p", "o", "v", "e", "r", "u", "s", "b">>) >>

\* The sequences of at most n distinct members of a pool.
Arrangements(pool, n) ==
    {s \in UNION {[1..k -> 1..Len(pool)] : k \in 0..n} :
        \A i, j \in 1..Len(s) : i # j => s[i] # s[j]}

\* The sub-sequences of a pool, in pool order.
RECURSIVE SubSeqs(_)
SubSeqs(pool) ==
    IF Len(pool) = 0 THEN {<<>>}
    ELSE LET rest == SubSeqs(Tail(pool))
         IN  rest \cup {<<pool[1]>> \o r : r \in rest}

BarePackages(ids) == [i \in 1..Len(ids) |-> Package(ids[i], None, <<>>, <<>>)]

Pick(pool, idx) == [i \in 1..Len(idx) |-> pool[idx[i]]]

VersionManifests ==
    {BarePackages(Pick(ToolPool, t) \o s) :
        t \in Arrangements(ToolPool, MaxToolPkgs),
        s \in {<<>>, <<SdkPool[4]>>, SubSeq(SdkPool, 1, 4)}}
    \cup
    {BarePackages(t \o s) : t \in {<<>>, <<ToolPool[2]>>}, s \in SubSeqs(SdkPool)}

\* The command line of an installer that __init__ has built: --target and the
\* list it was split into.
Args(msvc_version, sdk_version, show_versions, host, targets) ==
    [msvc_version |-> msvc_version, sdk_version |-> sdk_version,
     show_versions |-> show_versions, preview |-> FALSE, host |-> host,
     target |-> Join(targets, <<",">>), targets |-> targets]

VersionArgs ==
    {Args(m, s, FALSE, X64, <<X64>>) :
        m \in {None, <<>>, V_14_39, V_14_99},
        s \in {None, <<"9">>, <<"1", "0">>}}
    \cup {Args(None, None, TRUE, X64, <<X64>>)}

----------------------------------------------------------------------------
(* Inputs: package indexes and command lines for download_msvc *)

File_payload_vsix == <<"p", "a", "y", "l", "o", "a", "d", ".", "v", "s", "i", "x">>
File_dia_vsix == <<"d", "i", "a", ".", "v", "s", "i", "x">>
File_redist_vsix == <<"r", "e", "d", "i", "s", "t", ".", "v", "s", "i", "x">>

Str_de_DE == <<"d", "e", "-", "D", "E">>

Dep_NotBase ==
    <<"M", "i", "c", "r", "o", "s", "o", "f", "t", ".", "V", "i", "s", "u", "a", "l", "C", "p",
      "p", ".", "R", "e", "d", "i", "s", "t", ".", "1", "4">>

Dep_Other_base ==
    <<"m", "i", "c", "r", "o", "s", "o", "f", "t", ".", "v", "c", ".", "o", "t", "h", "e", "r",
      ".", "b", "a", "s", "e">>

\* The dependency that names the redistributable, in the manifest's mixed case.
Dep_Redist(target) ==
    <<"M", "i", "c", "r", "o", "s", "o", "f", "t", ".", "V", "C", ".">>
    \o <<"1", "4", ".", "3", "8", ".", "1", "7", ".", "8">>
    \o <<".", "C", "R", "T", ".", "R", "e", "d", "i", "s", "t", ".">> \o Upper(target)
    \o Str_base

PublishedPayload(fileName, url) == Payload(fileName, url, Sha256(Origin(url)))

\* The same payload with its sha256 in upper case.
PublishedPayloadUpper(fileName, url) == Payload(fileName, url, Upper(Sha256(Origin(url))))

DiaPayload == PublishedPayloadUpper(File_dia_vsix, "https://vendor/dia.vsix")
ToolsPayload == PublishedPayload(File_payload_vsix, "https://vendor/tools.vsix")
HeadersPayload == PublishedPayload(File_payload_vsix, "https://vendor/headers.vsix")
RedistPayload == PublishedPayload(File_redist_vsix, "https://vendor/redist.vsix")

\* The version download_msvc is called with for each kind of toolchain package.
V_14_39_tools_hostx64 == V_14_39 \o <<".", "t", "o", "o", "l", "s", ".", "h", "o", "s", "t">> \o X64

\* The redistributable's records for one target.
RedistRecords(mode, deps, version, target) ==
    (IF mode \in {"conventional", "both"}
     THEN <<Package(RedistPkg(version, target), None, <<RedistPayload>>, <<>>)>> ELSE <<>>)
    \o (IF mode \in {"fallback", "both"}
        THEN <<Package(Upper(RedistName(target)), None, <<>>, deps),
               Package(RedistName(target), Str_de_DE, <<>>, <<Dep_Other_base>>)>>
        ELSE <<>>)

DependencyVariants(target) ==
    { <<Dep_NotBase, Dep_Redist(target), Dep_Other_base>>,
      <<Dep_Redist(target)>>,
      <<Dep_NotBase>>,
      <<>>,
      NoDependencies }

\* The members of a sequence of sequences, one after the other.
RECURSIVE Concat(_)
Concat(seqs) == IF Len(seqs) = 0 THEN <<>> ELSE seqs[1] \o Concat(Tail(seqs))

\* The other packages of the expansion that the index holds.
ComponentRecords(present, version, host, targets) ==
    CASE present = "none" -> <<>>
      [] present = "some" ->
            << Package(Str_dia_sdk, None, <<DiaPayload>>, <<>>),
               Package(Lower(Dep_Redist(targets[1])), None, <<RedistPayload>>, <<>>) >>
      [] present = "localized" ->
            << Package(Str_dia_sdk, Str_de_DE, <<HeadersPayload>>, <<>>),
               Package(Str_dia_sdk, Str_en_US, <<DiaPayload>>, <<>>) >>
      [] present = "foreign" ->
            << Package(Str_dia_sdk, Str_de_DE, <<DiaPayload>>, <<>>) >>
      [] present = "all" ->
            BarePackages(BasePackages(version)
                         \o Concat([n \in 1..Len(targets) |->
                                        TargetPackages(version, host, targets[n])
                                        \o AsanPackagesAllTargets(version, targets[n])]))

MsvcManifests(host, targets) ==
    \* the claimed end-to-end manifest: one toolchain package and nothing else,
    \* then with an SDK component, then with the redistributable's fallback
    { <<Package(ToolsId(V_14_39, X64, X64), None, <<>>, <<>>)>> \o sdk \o redist :
         sdk \in {<<>>, BarePackages(<<SdkPool[4]>>)},
         redist \in {<<>>,
                     Concat([n \in 1..Len(targets) |->
                                RedistRecords("fallback", <<Dep_Redist(targets[n])>>,
                                              V_14_39_tools_hostx64, targets[n])])} }
    \cup
    { <<Package(ToolsId(V_14_39_17_9, X64, X64), None, <<ToolsPayload>>, <<>>)>>
      \o BarePackages(<<SdkPool[4]>>)
      \o Concat([n \in 1..Len(targets) |->
                    RedistRecords(mode, deps[targets[n]], V_14_39_17_9, targets[n])])
      \o ComponentRecords(present, V_14_39_17_9, host, targets) :
         mode \in {"conventional", "fallback", "both", "none"},
         deps \in [{targets[i] : i \in 1..Len(targets)} -> UNION {DependencyVariants(targets[i]) : i \in 1..Len(targets)}],
         present \in {"none", "some", "localized", "foreign", "all"} }

MsvcArgs ==
    {Args(None, None, FALSE, host, targets) :
        host \in {X64, ARM64},
        targets \in {<<X64>>, <<X86>>, <<ARM>>, <<ARM64>>, <<X64, ARM>>}}

----------------------------------------------------------------------------
(* Inputs: package indexes and command lines for download_sdk *)

InstallerPayload(name, url) == PublishedPayload(Str_Installers \o name, url)

CabPayloads ==
    << InstallerPayload(CabA, "https://vendor/sdk/a.cab"),
       InstallerPayload(CabB, "https://vendor/sdk/b.cab") >>

\* The payloads of the SDK's record for each kind of installer package.
SdkPayloadVariants(targets) ==
    { <<>>,
      <<InstallerPayload(Msi_StoreAppsTools, "https://vendor/sdk/tools.msi")>> \o CabPayloads,
      <<InstallerPayload(Msi_StoreAppsHeaders, "https://vendor/sdk/headers.msi")>>
          \o CabPayloads,
      <<InstallerPayload(Msi_UniversalCrt, "https://vendor/sdk/crt.msi"),
        InstallerPayload(Msi_StoreAppsHeaders, "https://vendor/sdk/headers.msi")>>
          \o CabPayloads,
      <<InstallerPayload(Str_DesktopLibs \o targets[Len(targets)] \o Str_x86_en_us_msi,
                         "https://vendor/sdk/libs.msi"),
        InstallerPayload(Msi_StoreAppsHeaders, "https://vendor/sdk/headers.msi")>>
          \o CabPayloads,
      <<InstallerPayload(Msi_StoreAppsHeaders, "https://vendor/sdk/headers.msi"),
        InstallerPayload(CabB, "https://vendor/sdk/b.cab")>> }

SdkDependencyVariants ==
    { <<Dep_Win11SDK>>, <<Dep_Win11SDK, Dep_Other_base>>, <<Dep_Win11SDK_Missing>>, <<>>,
      NoDependencies }

\* A toolchain whose packages, the redistributables apart, the index does not hold.
ToolchainRecords(targets) ==
    <<Package(ToolIdMixedCase, None, <<>>, <<>>)>>
    \o BarePackages([n \in 1..Len(targets) |-> RedistPkg(V_14_39_17_9, targets[n])])

SdkRecords(deps, payloads) ==
    << Package(SdkPool[4], None, <<>>, deps),
       Package(Dep_Win11SDK, None, payloads, <<>>) >>

SdkManifests(targets) ==
    {ToolchainRecords(targets) \o SdkRecords(deps, payloads) :
        deps \in SdkDependencyVariants, payloads \in SdkPayloadVariants(targets)}

SdkArgs == {Args(None, None, FALSE, X64, targets) : targets \in {<<X64>>, <<X64, ARM>>}}

\* Buffers for extract_cab_files: a marker after every number of bytes up to
\* MaxPad, alone or followed by more bytes or by a second name.
MaxPad == 36

Pad(n, c) == [i \in 1..n |-> c]

CabBuffers ==
    {Pad(n, "X") \o DotCab \o tail :
        n \in 0..MaxPad,
        tail \in {<<>>, Pad(10, "z"), Pad(40, "z"), DotCab, CabB}}
    \cup {Pad(n, "X") : n \in 0..3}
    \cup {Pad(n, ByteFF) \o CabA : n \in 0..1}
    \cup {<<ByteNul, ByteFF>> \o Pad(30, "X") \o DotCab}

\* The manifest of the download-cache specification: three toolchain payloads, two
\* of them under the same file name, then an installer package and its sub-archive.
FetchManifest ==
    << Package(ToolIdMixedCase, None, <<ToolsPayload>>, <<>>),
       Package(Str_dia_sdk, None, <<DiaPayload>>, <<>>),
       Package(MSVC_PREFIX \o V_14_39_17_9 \o Str_crt_headers_base, None, <<HeadersPayload>>,
               <<>>),
       Package(RedistPkg(V_14_39_17_9, X64), None, <<>>, <<>>) >>
    \o SdkRecords(<<Dep_Win11SDK>>,
                  <<InstallerPayload(Msi_StoreAppsHeaders, "https://vendor/sdk/headers.msi")>>
                      \o CabPayloads)

----------------------------------------------------------------------------
(* Inputs: command lines, channel manifests and certificate checks for the start of a run *)

\* The command line as argparse hands it to VSInstaller(args).
ParsedArgs(msvc_version, sdk_version, preview, target) ==
    [msvc_version |-> msvc_version, sdk_version |-> sdk_version, show_versions |-> FALSE,
     preview |-> preview, host |-> X64, target |-> target, targets |-> <<>>]

\* Values of --target: accepted lists, and lists with an entry that is not a
\* target: a misspelt or upper-case name, a blank after the comma, an empty entry.
TargetOptions ==
    { X64, X64 \o <<",">> \o X86, ARM64 \o <<",">> \o X64,
      <<>>, X64 \o <<",">>, X64 \o <<",", " ">> \o X86, <<"X", "6", "4">>,
      <<"m", "i", "p", "s">> \o <<",">> \o X64, X64 \o <<",">> \o <<"a", "r", "m", "6", "5">> }

StartArgs ==
    {ParsedArgs(m, s, FALSE, t) :
        m \in {None, V_14_39, V_14_99}, s \in {None, <<"9">>, <<"1", "0">>},
        t \in TargetOptions}

\* The channel manifest of the release channel, and of the preview channel.
ReleaseChannel == <<ChannelItem(Item_VisualStudio, <<VsManifestUrl>>)>>

PreviewChannel ==
    << ChannelItem(Item_VisualStudio, <<VsManifestUrl>>),
       ChannelItem(Item_VisualStudioPreview, <<VsPreviewManifestUrl, VsManifestUrl>>) >>

ChannelManifests ==
    {ReleaseChannel, PreviewChannel, <<>>, <<ChannelItem(Item_VisualStudio, <<>>)>>}

Hosts == {"aka.ms", "download.visualstudio.microsoft.com", "vendor"}

\* Every way the servers' certificates may fail under the two trust stores.
CertificateChecks == SUBSET (Hosts \X {DefaultContext, CertifiContext})
----------------------------------------------------------------------------
(* Specifications *)

\* A process that has just been started on empty directories.
InitProcess ==
    /\ exit = Running
    /\ packages = BuildIndex(<<>>)
    /\ msvc_versions = EmptyDict
    /\ sdk_versions = EmptyDict
    /\ selections = <<>>
    /\ dirs = {}
    /\ cache = EmptyDict
    /\ msvc_packages = <<>>
    /\ todo = <<>>
    /\ pkg_i = 1
    /\ payload_i = 1
    /\ dl = NoCall
    /\ total_bytes = 0
    /\ msi_files = <<>>
    /\ cab_files = <<>>
    /\ msi_data = <<>>
    /\ netlog = <<>>
    /\ returned = <<>>
    /\ extracted = <<>>
    /\ reported = <<>>
    /\ leftover = {}
    /\ runs = 1
    /\ corruptions = 0
    /\ ssl_context = DefaultContext

\* A run that has fetched both manifests from servers with accepted certificates.
InitRun ==
    /\ InitProcess
    /\ pc = "parse_available_versions"
    /\ main_manifest = ReleaseChannel
    /\ certifi = TRUE
    /\ rejected = {}
    /\ requests = ManifestRequests

\* Version discovery and selection over many manifests and command lines.
InitVersions ==
    /\ args \in VersionArgs
    /\ vs_manifest \in VersionManifests
    /\ network = {"ok"}
    /\ InitRun

NextVersions ==
    \/ parse_available_versions
    \/ select_versions
    \/ select_versions_again

SpecVersions == InitVersions /\ [][NextVersions]_vars

\* The run up to the end of download_msvc, over many package indexes, with
\* servers that answer with the published bytes.
InitMsvc ==
    /\ args \in MsvcArgs
    /\ vs_manifest \in MsvcManifests(args.host, args.targets)
    /\ network = {"ok"}
    /\ InitRun

NextMsvc ==
    \/ parse_available_versions
    \/ select_versions
    \/ accept_license
    \/ create_directories
    \/ download_msvc
    \/ msvc_loop
    \/ dl_check
    \/ dl_request
    \/ dl_read
    \/ dl_verify
    \/ msvc_extract

SpecMsvc == InitMsvc /\ [][NextMsvc]_vars

\* The whole run over many SDK records, with servers that answer with the
\* published bytes.
InitSdk ==
    /\ args \in SdkArgs
    /\ vs_manifest \in SdkManifests(args.targets)
    /\ network = {"ok"}
    /\ InitRun

NextSdk ==
    \/ parse_available_versions
    \/ select_versions
    \/ accept_license
    \/ create_directories
    \/ download_msvc
    \/ msvc_loop
    \/ download_sdk
    \/ sdk_msi_loop
    \/ dl_check
    \/ dl_request
    \/ dl_read
    \/ dl_verify
    \/ sdk_msi_scan
    \/ sdk_cab_loop
    \/ sdk_cab_next
    \/ sdk_install

SpecSdk == InitSdk /\ [][NextSdk]_vars

\* Calls of extract_cab_files on many buffers.
InitCab ==
    /\ args = Args(None, None, FALSE, X64, <<X64>>)
    /\ vs_manifest = <<>>
    /\ network = {}
    /\ msi_data \in CabBuffers
    /\ pc = "extract_cab_files"
    /\ exit = Running
    /\ packages = BuildIndex(<<>>)
    /\ msvc_versions = EmptyDict
    /\ sdk_versions = EmptyDict
    /\ selections = <<>>
    /\ dirs = {}
    /\ cache = EmptyDict
    /\ msvc_packages = <<>>
    /\ todo = <<>>
    /\ pkg_i = 1
    /\ payload_i = 1
    /\ dl = NoCall
    /\ total_bytes = 0
    /\ msi_files = <<>>
    /\ cab_files = <<>>
    /\ netlog = <<>>
    /\ returned = <<>>
    /\ extracted = <<>>
    /\ reported = <<>>
    /\ leftover = {}
    /\ runs = 1
    /\ corruptions = 0
    /\ main_manifest = ReleaseChannel
    /\ certifi = TRUE
    /\ rejected = {}
    /\ ssl_context = DefaultContext
    /\ requests = <<>>

NextCab == call_extract_cab_files

SpecCab == InitCab /\ [][NextCab]_vars

\* The download cache under every environment: transfers that fail or are
\* tampered with, processes killed while writing, cache files damaged from
\* outside, and runs started again on the same directories.
Init ==
    /\ args = Args(None, None, FALSE, X64, <<X64>>)
    /\ vs_manifest = FetchManifest
    /\ network = {"ok", "tampered", "url_error", "no_length"}
    /\ InitRun

Next ==
    \/ parse_available_versions
    \/ select_versions
    \/ accept_license
    \/ create_directories
    \/ download_msvc
    \/ msvc_loop
    \/ dl_check
    \/ dl_request
    \/ dl_read
    \/ dl_verify
    \/ msvc_extract
    \/ download_sdk
    \/ sdk_msi_loop
    \/ sdk_msi_scan
    \/ sdk_cab_loop
    \/ sdk_cab_next
    \/ sdk_install
    \/ Interrupt
    \/ Corrupt
    \/ Restart

Spec == Init /\ [][Next]_vars


\* The whole run from VSInstaller(args) on: every command line on servers with
\* accepted certificates, every outcome of the certificate checks, and every
\* channel manifest; requests may fail with another transport error.
InitStart ==
    /\ InitProcess
    /\ pc = "init"
    /\ requests = <<>>
    /\ network = {"ok", "url_error"}
    /\ \/ /\ args \in StartArgs
          /\ vs_manifest \in {FetchManifest, BarePackages(<<SdkPool[4]>>)}
          /\ main_manifest = ReleaseChannel
          /\ certifi = TRUE
          /\ rejected = {}
       \/ /\ args = ParsedArgs(None, None, FALSE, X64)
          /\ vs_manifest = FetchManifest
          /\ main_manifest = ReleaseChannel
          /\ certifi \in BOOLEAN
          /\ rejected \in CertificateChecks
       \/ /\ args \in {ParsedArgs(None, None, p, X64) : p \in BOOLEAN}
          /\ vs_manifest = FetchManifest
          /\ main_manifest \in ChannelManifests
          /\ certifi = TRUE
          /\ rejected = {}

NextStart ==
    \/ init
    \/ get_manifest
    \/ ssl_retry
    \/ get_vs_manifest
    \/ parse_available_versions
    \/ select_versions
    \/ accept_license
    \/ create_directories
    \/ download_msvc
    \/ msvc_loop
    \/ dl_check
    \/ dl_request
    \/ dl_read
    \/ dl_verify
    \/ msvc_extract
    \/ download_sdk
    \/ sdk_msi_loop
    \/ sdk_msi_scan
    \/ sdk_cab_loop
    \/ sdk_cab_next
    \/ sdk_install

SpecStart == InitStart /\ [][NextStart]_vars
----------------------------------------------------------------------------
(* Claims about download_with_progress, under Spec *)

\* The digest of the bytes is the expected hash, compared without regard to case.
DigestIs(data, expected_hash) == Sha256(data) = Lower(expected_hash)

\* The cache test of the current call has been made.
Tested == dl.state # "none" /\ ~(dl.state = "running" /\ pc = "dl_check")

\* What the current call found under its file name was a valid cache file.
FoundValid == dl.start # None /\ DigestIs(dl.start, dl.expected_hash)

\* C1: through calls, corruptions of cache files, hash-mismatch exits, kills
\* during a write and new runs, every call that returns does so with bytes
\* whose digest is the expected hash; a call that finds a file whose bytes do
\* not have that digest (a damaged file, or what a failed or interrupted
\* download left) never returns that file: it returns what it downloaded, and
\* only a file that was valid when the call found it is returned from the cache.
C1_ReturnedBytesAreVerified ==
    dl.state = "returned" =>
        /\ DigestIs(dl.result, dl.expected_hash)
        /\ dl.requests = 0 => (FoundValid /\ dl.result = dl.start)
        /\ ~FoundValid => (dl.requests = 1 /\ dl.result = dl.data_buffer)

\* A later run's call returns after it found an invalid file that an earlier
\* download had left.
C1_Witness ==
    /\ runs > 1
    /\ dl.state = "returned"
    /\ dl.left
    /\ dl.start # None
    /\ ~DigestIs(dl.start, dl.expected_hash)
    /\ dl.start # <<>>

\* C2: a call makes a network request if and only if the cache file is missing
\* or its digest is not the expected hash, compared case-insensitively; a call
\* that finds a valid file returns its contents and makes no request.  (A call
\* killed before its request is sent has made none.)
C2_RequestIffCacheMiss ==
    Tested =>
        /\ dl.requests \in {0, 1}
        /\ dl.requests = 1 => ~FoundValid
        /\ (pc # "dl_request" /\ dl.state # "killed") => (dl.requests = 1 <=> ~FoundValid)
        /\ FoundValid => (dl.state = "returned" /\ dl.result = dl.start /\ dl.requests = 0)

\* A valid file whose expected hash the manifest writes in upper case is
\* returned from the cache, and a missing file has been requested.
C2_Witness ==
    /\ dl.state = "returned"
    /\ dl.requests = 0
    /\ dl.expected_hash # Lower(dl.expected_hash)
    /\ Len(netlog) > 0
    /\ \E i \in 1..Len(returned) : returned[i] # dl.filename

\* The digest of everything the current call downloaded is not the expected hash.
Mismatch == Lower(dl.expected_hash) # Sha256(dl.data_buffer)

\* The step that verifies a mismatching download ends the run with the
\* hash-mismatch error, one request made and nothing returned to the caller.
MismatchExits ==
    (pc = "dl_verify" /\ Mismatch /\ pc' # pc /\ dl'.state # "killed") =>
        /\ dl'.state = "exit"
        /\ dl'.requests = 1
        /\ dl'.result = <<>>
        /\ exit' = SysExit("Hash mismatch", dl.filename)
        /\ pc' = "ended"
        /\ UNCHANGED <<netlog, returned, extracted>>

\* While the process that exited is the last one started, nothing more is
\* requested, returned or extracted.
NothingAfterMismatch ==
    (dl.state = "exit" /\ runs' = runs) =>
        /\ dl' = dl
        /\ UNCHANGED <<pc, exit, netlog, returned, extracted, pkg_i, payload_i>>

\* C3: when the digest of the fully downloaded bytes is not the expected hash,
\* the call ends the run with an error: no second request for the file, no
\* data returned to the caller, no later package fetched or extracted.
C3_HashMismatchIsFatal == [][MismatchExits /\ NothingAfterMismatch]_vars

\* A tampered transfer has been read to its end and the run has ended on it,
\* with packages still to fetch.
C3_Witness ==
    /\ dl.state = "exit"
    /\ exit = SysExit("Hash mismatch", dl.filename)
    /\ dl.data_buffer # <<>>
    /\ pkg_i < Len(todo)

----------------------------------------------------------------------------
(* Claims about the expansion in download_msvc, under SpecMsvc *)

\* download_msvc has been entered and has built its list or raised.
Expanded == dirs # {} /\ pc # "download_msvc"

\* The index's only toolchain package is microsoft.vc.14.39.tools.hostx64.targetx64.base,
\* no version is asked for, and the run is for host x64 and target x64.
EndToEndScenario ==
    /\ ~Truthy(args.msvc_version)
    /\ ~Truthy(args.sdk_version)
    /\ args.host = X64
    /\ args.targets = <<X64>>
    /\ \E i \in 1..Len(vs_manifest) : vs_manifest[i].id = ToolsId(V_14_39, X64, X64)
    /\ \A i \in 1..Len(vs_manifest) :
          IsMsvcToolsId(Lower(vs_manifest[i].id))
              => vs_manifest[i].id = ToolsId(V_14_39, X64, X64)

\* The shared and the x64 identifiers formed from 14.39, the redistributable apart.
EndToEndList ==
    BasePackages(V_14_39) \o TargetPackages(V_14_39, X64, X64) \o AsanPackages(V_14_39, X64)

\* C6: in the end-to-end scenario select_versions returns the toolchain version
\* "14.39", and the list download_msvc builds is exactly the shared identifiers
\* and the x64 identifiers formed from that version, then the redistributable.
C6_EndToEnd ==
    EndToEndScenario =>
        /\ Len(selections) >= 1 =>
              /\ selections[1].exit.kind = "running"
              /\ selections[1].value[1] = V_14_39
        /\ Expanded =>
              /\ exit.kind # "crash"
              /\ Len(msvc_packages) = Len(EndToEndList) + 1
              /\ SubSeq(msvc_packages, 1, Len(EndToEndList)) = EndToEndList

\* The conventionally named redistributable of the target is not in the index.
ConventionalAbsent(target) ==
    ~InIndex(packages, RedistPkg(selections[1].value[1], target))

\* The fallback package of the target is not in the index.
FallbackAbsent(target) == ~InIndex(packages, RedistName(target))

\* The dependencies of the first record of the fallback package.
FallbackDependencies(target) == packages.recs[RedistName(target)][1].dependencies

\* The first record of the fallback package names no dependency ending in ".base".
NoMatchingDependency(target) ==
    \/ FallbackDependencies(target) = NoDependencies
    \/ \A i \in 1..Len(FallbackDependencies(target)) :
          ~EndsWith(FallbackDependencies(target)[i], Str_base)

Unresolvable(target) ==
    ConventionalAbsent(target) /\ (FallbackAbsent(target) \/ NoMatchingDependency(target))

\* The first dependency, in declared order, that ends in ".base".
FirstBaseDependency(target) ==
    LET deps == FallbackDependencies(target)
    IN  deps[CHOOSE i \in 1..Len(deps) :
                 /\ EndsWith(deps[i], Str_base)
                 /\ \A j \in 1..(i - 1) : ~EndsWith(deps[j], Str_base)]

TargetSet == {args.targets[n] : n \in 1..Len(args.targets)}

ListSet == {msvc_packages[i] : i \in 1..Len(msvc_packages)}

\* C7: when the conventionally named redistributable is absent, the identifier
\* used is the lower-cased first dependency ending in ".base" of the first
\* record of the fallback package; when the fallback package or a matching
\* dependency is absent, the run ends with an error it reports (an exit), not
\* with an uncaught exception.
C7_FallbackResolution ==
    Expanded =>
        IF \E t \in TargetSet : Unresolvable(t)
        THEN exit.kind = "exit"
        ELSE \A t \in TargetSet :
                ConventionalAbsent(t) => Lower(FirstBaseDependency(t)) \in ListSet

\* The names of the list that the index does not hold, in the order of the loop.
Absent == SelectSeq(todo, LAMBDA name : ~InIndex(packages, name))

\* download_msvc ended on an exception because a package was not in the index.
AbortedOnMissing ==
    /\ exit = Crash("KeyError")
    /\ \E n \in 1..Len(args.targets) :
          /\ ConventionalAbsent(args.targets[n])
          /\ FallbackAbsent(args.targets[n])
          /\ \A m \in 1..(n - 1) : ~Unresolvable(args.targets[m])

\* C8: for every index and target list, a computed identifier that the index
\* does not hold is reported and skipped and the run goes on: download_msvc is
\* never aborted by a missing package, and when it returns it has reported
\* every absent identifier.
C8_MissingNeverAborts ==
    Expanded =>
        /\ ~AbortedOnMissing
        /\ pc = "download_sdk" => reported = Absent

----------------------------------------------------------------------------
(* Claims about extract_cab_files, under SpecCab, and download_sdk, under SpecSdk *)

\* The offsets (from 0) of the literal occurrences of ".cab" in the buffer.
Occurrences == {i \in 0..(Len(msi_data) - 4) : SubSeq(msi_data, i + 1, i + 4) = DotCab}

\* The place of an occurrence among all of them, in increasing offset order.
Rank(i) == Cardinality({j \in Occurrences : j <= i})

\* A call of extract_cab_files outside any run has ended.
CabCallEnded == pc = "ended" /\ Len(selections) = 0 /\ runs = 1 /\ dirs = {}

\* C9: for every buffer extract_cab_files returns one entry per occurrence of
\* ".cab", in increasing offset order, none skipped and none twice, and the
\* entry of the occurrence at offset i is the 36 bytes [i-32, i+4) (asked here
\* of the occurrences that have 32 bytes before them).
C9_OneEntryPerOccurrence ==
    CabCallEnded =>
        /\ exit.kind = "running"
        /\ Len(cab_files) = Cardinality(Occurrences)
        /\ \A i \in Occurrences :
              i >= NameWidth =>
                  cab_files[Rank(i)] = SubSeq(msi_data, i - NameWidth + 1, i + 4)

\* The run ended on the TypeError of the CAB loop: the name the loop was at
\* matches no payload of the SDK's record.
AbortedOnUnmatchedName ==
    /\ pc = "ended"
    /\ exit = Crash("TypeError")
    /\ Len(msi_files) > 0
    /\ todo = cab_files
    /\ pkg_i \in 1..Len(cab_files)
    /\ FindPayload(SdkPayloads(packages, selections[1].value[4]), cab_files[pkg_i]) = 0

ReturnedSet == {returned[i] : i \in 1..Len(returned)}

\* C10: a recovered name that matches no payload of the SDK's record is
\* skipped: it never ends the run, and the names that do match a payload are
\* all fetched before the installer packages are unpacked.
C10_UnmatchedNameSkipped ==
    /\ ~AbortedOnUnmatchedName
    /\ pc = "sdk_install" =>
          \A k \in 1..Len(cab_files) :
              FindPayload(SdkPayloads(packages, selections[1].value[4]), cab_files[k]) # 0
                  => cab_files[k] \in ReturnedSet

----------------------------------------------------------------------------
(* Claims about the unpacking of the installer packages, under SpecSdk *)

Str_dot_msi == <<".", "m", "s", "i">>

\* The runs of msiexec.exe so far: the positions, in the history of unpackings,
\* of the installer packages handed to it, one file per run (line 466).
ExpanderCalls == {i \in 1..Len(extracted) : EndsWith(extracted[i], Str_dot_msi)}

MsiSet == {msi_files[i] : i \in 1..Len(msi_files)}

CabSet == {cab_files[i] : i \in 1..Len(cab_files)}

\* Every installer package and every recovered sub-archive has been returned
\* by download_with_progress, hence verified, once msiexec.exe has run.
FetchedBeforeExpander == ExpanderCalls # {} => (MsiSet \cup CabSet) \subseteq ReturnedSet

\* C11: msiexec.exe is run once for the group of installer packages of the
\* SDK, with all of them, and not once per file; and when it first runs every
\* installer package and every recovered sub-archive has been fetched and
\* verified.
C11_ExpanderOncePerGroup ==
    /\ Cardinality(ExpanderCalls) <= 1
    /\ \A i \in ExpanderCalls : {extracted[i]} = MsiSet
    /\ FetchedBeforeExpander

\* msiexec.exe has run for the last of two installer packages.
C11_TwoExpanderCalls == Cardinality(ExpanderCalls) = 2 /\ pc = "ended"
----------------------------------------------------------------------------
(* Claims about the sanitizer packages of download_msvc, under SpecMsvc *)

\* The name is that of the sanitizer package of one target, for some version.
IsAsanPackageOf(name, target) == EndsWith(name, Str_asan \o target \o Str_base)

\* C12: the list built by download_msvc holds no per-target sanitizer package
\* (microsoft.vc.{version}.asan.{target}.base) of target arm or arm64, for
\* every accepted target list; it holds the sanitizer package of a target
\* exactly when that target was asked for and is x86 or x64.
C12_SanitizerOnlyX86X64 ==
    (Expanded /\ exit.kind = "running") =>
        \A n \in 1..Len(ALL_TARGETS) :
            (\E i \in 1..Len(msvc_packages) : IsAsanPackageOf(msvc_packages[i], ALL_TARGETS[n]))
                <=> (ALL_TARGETS[n] \in TargetSet /\ ALL_TARGETS[n] \in {X86, X64})

\* The list has been built for the targets x64 and arm over an index that holds
\* the sanitizer packages of both: it has the one of x64.
C12_Witness ==
    /\ Expanded
    /\ exit.kind = "running"
    /\ args.targets = <<X64, ARM>>
    /\ InIndex(packages, MSVC_PREFIX \o selections[1].value[1] \o Str_asan \o ARM \o Str_base)
    /\ \E i \in 1..Len(msvc_packages) : IsAsanPackageOf(msvc_packages[i], X64)
----------------------------------------------------------------------------
(* Claims about the order of the fetches, under SpecSdk *)

Str_dot_cab == <<".", "c", "a", "b">>

\* No name comes before a name that sorts before it.
Ascending(names) ==
    \A i, j \in 1..Len(names) : i < j => ~StrLess(names[j], names[i])

\* The names the calls of download_with_progress have returned for, in the
\* order of the calls, of the installer packages and of the sub-archives.
FetchedMsi == SelectSeq(returned, LAMBDA f : EndsWith(f, Str_dot_msi))

FetchedCab == SelectSeq(returned, LAMBDA f : EndsWith(f, Str_dot_cab))

\* The loop the run is in, a call of download_with_progress counted with the
\* loop that made it.
InLoop ==
    CASE pc \in {"msvc_loop", "msvc_extract"} -> "download_msvc"
      [] pc \in {"sdk_msi_loop", "sdk_msi_scan"} -> "sdk_msi"
      [] pc \in {"sdk_cab_loop", "sdk_cab_next"} -> "sdk_cab"
      [] pc \in {"dl_check", "dl_request", "dl_read", "dl_verify"} -> dl.caller
      [] OTHER -> ""

\* The loop of download_msvc and the MSI loop walk their names in sorted order.
SortedLoopsAscend ==
    /\ InLoop \in {"download_msvc", "sdk_msi"} => Ascending(todo)
    /\ Ascending(FetchedMsi)

\* C13: in the loop of download_msvc, in the MSI loop and in the CAB loop of
\* download_sdk the names are walked in lexicographically sorted order: no
\* item is fetched before an item of the same loop that sorts before it.
C13_FetchesInSortedOrder ==
    /\ InLoop # "" => Ascending(todo)
    /\ Ascending(FetchedMsi)
    /\ Ascending(FetchedCab)

\* Two sub-archives have been fetched, the later one sorting first.
C13_CabOutOfOrder ==
    /\ Len(FetchedCab) >= 2
    /\ StrLess(FetchedCab[2], FetchedCab[1])
----------------------------------------------------------------------------
(* Claims about certificate failures, under SpecStart *)

\* The request at position i is the last one made.
LastRequest(i) == i = Len(requests)

\* The request after the one at position i repeats it with the certifi bundle.
RetriedWithBundle(i) ==
    /\ i < Len(requests)
    /\ requests[i + 1].url = requests[i].url
    /\ requests[i + 1].context = CertifiContext

\* The handling of transport errors that the downloads of the given URLs get:
\* a certificate failure under the default trust store is followed by one
\* retry with the bundle when certifi can be imported, and by the exit that
\* asks for certifi when it cannot; a certificate failure under the bundle and
\* every other error end the run with that error; and no request is repeated
\* for another reason.
TlsHandled(urls) ==
    \A i \in 1..Len(requests) :
        requests[i].url \in urls =>
            /\ (requests[i].error = CertError /\ requests[i].context = DefaultContext) =>
                  IF certifi
                  THEN (pc = "ssl_retry" /\ LastRequest(i)) \/ RetriedWithBundle(i)
                  ELSE /\ LastRequest(i)
                       /\ pc = "ended"
                       /\ exit = SysExit("Please install 'certifi' package", <<"1">>)
            /\ (requests[i].error # "" /\ ~(requests[i].error = CertError
                                           /\ requests[i].context = DefaultContext)) =>
                  /\ LastRequest(i)
                  /\ pc = "ended"
                  /\ exit = Crash(requests[i].error)
            /\ (i < Len(requests) /\ requests[i + 1].url = requests[i].url) =>
                  /\ requests[i].error = CertError
                  /\ requests[i].context = DefaultContext
                  /\ requests[i + 1].context = CertifiContext

RequestedUrls == {requests[i].url : i \in 1..Len(requests)}

\* The downloads of the channel manifest get that handling.
ChannelManifestTlsHandled == TlsHandled({MANIFEST_URL, MANIFEST_PREVIEW_URL})

\* C14: every download of the run (channel manifest, VS manifest, payloads)
\* whose server certificate is rejected is retried exactly once with the
\* certifi bundle when certifi is available, and ends the run with the
\* instruction to install certifi when it is not; a second certificate failure
\* and any other transport error end the run without another retry.
C14_CertFailureRetriedOnce == TlsHandled(RequestedUrls)

\* The channel manifest was fetched at the second attempt, with the bundle.
C14_RetrySucceeded ==
    /\ Len(requests) >= 2
    /\ requests[1].error = CertError
    /\ requests[2] = Request(MANIFEST_URL, CertifiContext, "")

\* The VS manifest's server was rejected and the run ended after that one request.
C14_VsManifestNotRetried ==
    /\ certifi
    /\ pc = "ended"
    /\ Len(requests) = 2
    /\ requests[2] = Request(VsManifestUrl, DefaultContext, CertError)
----------------------------------------------------------------------------
(* Version selection: claims *)

SdkKeys_14_16_2_9 == {<<"1", "4">>, <<"1", "6">>, <<"2">>, <<"9">>}

\* k is a greatest member of S in str order, stated without max().
IsGreatest(k, S) == k \in S /\ \A x \in S : x = k \/ StrLess(x, k)

\* Whether the toolchain part of select_versions passes for the current inputs.
MsvcPartPasses ==
    IF Truthy(args.msvc_version) THEN args.msvc_version \in DOMAIN msvc_versions
    ELSE DOMAIN msvc_versions # {}

ClaimsToolchainId(id) ==
    /\ StartsWith(id, MSVC_PREFIX)
    /\ \E i \in 1..Len(ALL_TARGETS) :
          EndsWith(id, Str_tools_host \o ALL_TARGETS[i] \o Str_target \o ALL_TARGETS[i]
                       \o Str_base)
    /\ LET seg == Split(id, ".")
       IN  Len(seg) >= 4 /\ IsNumeric(seg[3]) /\ IsNumeric(seg[4])

ClaimedVersionKey(id) == LET seg == Split(id, ".") IN seg[3] \o Dot \o seg[4]

\* C5: after parse_available_versions the toolchain candidates are exactly the
\* {major}.{minor} keys of the identifiers of that form, for any architecture
\* X, whose major and minor segments are both purely numeric.
C5_ToolchainIffPattern ==
    pc # "parse_available_versions" =>
        DOMAIN msvc_versions =
            {ClaimedVersionKey(packages.keys[i]) :
                i \in {j \in 1..Len(packages.keys) : ClaimsToolchainId(packages.keys[j])}}

----------------------------------------------------------------------------
(* Claims about the failures before any download, under SpecStart *)

\* The entries of the comma-separated --target value.
TargetEntries == Split(args.target, ",")

\* The entries that are none of x64, x86, arm, arm64.
UnknownEntries ==
    {TargetEntries[n] : n \in 1..Len(TargetEntries)} \ {X64, X86, ARM, ARM64}

\* No request has been made and no directory or file exists.
NothingTouched ==
    /\ requests = <<>>
    /\ netlog = <<>>
    /\ dirs = {}
    /\ DOMAIN cache = {}

\* Only the two manifests have been asked for: no payload has been requested,
\* returned or written.
NoPayloadFetched ==
    /\ RequestedUrls \subseteq {MANIFEST_URL, MANIFEST_PREVIEW_URL, VsManifestUrl,
                                VsPreviewManifestUrl}
    /\ netlog = <<>>
    /\ returned = <<>>
    /\ DOMAIN cache = {}

\* select_versions has been called with a requested version that the manifest
\* does not have.
UnknownMsvcRequested ==
    /\ Len(selections) >= 1
    /\ Truthy(args.msvc_version)
    /\ args.msvc_version \notin DOMAIN msvc_versions

UnknownSdkRequested ==
    /\ Len(selections) >= 1
    /\ Truthy(args.sdk_version)
    /\ args.sdk_version \notin DOMAIN sdk_versions

\* C15: when an entry of the --target list is none of x64, x86, arm, arm64 the
\* run ends in a sys.exit that names such an entry, before any request is made
\* and before any directory or file is created; and when a requested version
\* is unknown the run ends before any payload is fetched, in a sys.exit that
\* names the version once the version is tested.
C15_FailsBeforeAnyWork ==
    /\ (UnknownEntries # {} /\ pc # "init") =>
          /\ pc = "ended"
          /\ exit.kind = "exit"
          /\ exit.what = "Unknown target architecture"
          /\ exit.arg \in UnknownEntries
          /\ NothingTouched
    /\ UnknownMsvcRequested =>
          /\ pc = "ended"
          /\ exit = SysExit("Unknown MSVC version", args.msvc_version)
          /\ NoPayloadFetched
    /\ UnknownSdkRequested =>
          /\ pc = "ended"
          /\ exit.kind # "running"
          /\ NoPayloadFetched
          /\ MsvcPartPasses =>
                exit = SysExit("Unknown Windows SDK version", args.sdk_version)

\* The run was given "x64, x86" and has ended on the entry " x86".
C15_Witness ==
    /\ pc = "ended"
    /\ args.target = X64 \o <<",", " ">> \o X86
    /\ exit = SysExit("Unknown target architecture", <<" ">> \o X86)

\* The run has ended on a requested SDK version that the manifest does not have.
C15_UnknownVersionEnded ==
    /\ UnknownSdkRequested
    /\ exit = SysExit("Unknown Windows SDK version", <<"1", "0">>)
----------------------------------------------------------------------------
====
